---- MODULE Spec2Model ----
(***************************************************************************)
(* SGA-V2 essence filesystem (relic.sga.v2.essencefs.definitions): the     *)
(* lazy / in-memory node graph, the EssenceFSV2 facade, the ToC            *)
(* disassembler and the two-pass serializer.                               *)
(*                                                                         *)
(* Strings are sequences of one-character strings, so that the path        *)
(* helpers (split, join, lower-casing, separator fixing) are computed as   *)
(* the code computes them.  Byte payloads are sequences of small naturals. *)
(***************************************************************************)
EXTENDS Integers, Sequences, FiniteSets, TLC

\* ------------------------------------------------------------------ bounds
\* longest payload a write handle may leave in an in-memory file
MaxLen == 2
\* number of facade calls made in one run
MaxOps == 3

\* ------------------------------------------------------- program constants
\* SgaTocFileDataHeaderV2Dow._SIZE / LazySgaTocFileDataHeaderV2Dow.Meta.SIZE
DATA_HEADER_SIZE == 264
\* _SgaV2Serializer.ARCHIVE_HEADER_POS
ARCHIVE_HEADER_POS == 12
\* _SgaV2Serializer.TOC_HEADER_POS
TOC_HEADER_POS == 180
\* _SgaV2Serializer.TOC_HEADER_SIZE
TOC_HEADER_SIZE == 24
\* _SgaV2Serializer.TOC_BLOCK_POS
TOC_BLOCK_POS == TOC_HEADER_POS + TOC_HEADER_SIZE
\* SgaTocDriveV2._SIZE
DRIVE_SIZE == 138
\* SgaTocFolderV2._SIZE
FOLDER_SIZE == 12
\* SgaTocFileV2Dow._SIZE
FILE_SIZE_DOW == 20
\* StorageType members (relic.sga.core.definitions)
STORE == 0
STREAM_COMPRESS == 1
BUFFER_COMPRESS == 2

\* _SgaTocFileV2._STORAGE_TYPE_SHIFT as a factor (1 << 4) and the width of the mask
STORAGE_TYPE_FACTOR == 16

\* ---------------------------------------------------------------- sequencing
\* the value of the one-element set S: "{ E(x) : x \in {e} }" evaluates e, binds
\* the value to x and evaluates E(x), as a statement sequence does
Then(S) == CHOOSE v \in S : TRUE

\* ------------------------------------------------------------ SgaPathResolver
SEP == "\\"
INV_SEP == "/"
ROOT == <<SEP>>

\* str.lower() on the alphabet of the model
LowerChar(c) ==
    CASE c = "A" -> "a"
      [] c = "B" -> "b"
      [] c = "X" -> "x"
      [] c = "Y" -> "y"
      [] c = "N" -> "n"
      [] c = "D" -> "d"
      [] c = "M" -> "m"
      [] c = "Z" -> "z"
      [] c = "E" -> "e"
      [] OTHER -> c

fix_seperator(path) == [i \in 1..Len(path) |-> IF path[i] = INV_SEP THEN SEP ELSE path[i]]

fix_case(path) == [i \in 1..Len(path) |-> LowerChar(path[i])]

\* index of the first occurrence of c in s, 0 when there is none
IndexOf(s, c) ==
    IF \E i \in 1..Len(s) : s[i] = c
    THEN CHOOSE i \in 1..Len(s) : s[i] = c /\ \A j \in 1..(i - 1) : s[j] # c
    ELSE 0

\* SgaPathResolver.parse: split on the first ":" into (alias, path)
parse(path) ==
    LET At(k) ==
            IF k > 0
            THEN [has_alias |-> TRUE, alias |-> SubSeq(path, 1, k - 1),
                  path |-> SubSeq(path, k + 1, Len(path))]
            ELSE [has_alias |-> FALSE, alias |-> <<>>, path |-> path]
    IN  At(IndexOf(path, ":"))

\* str.split(sep): the pieces between separators, empty pieces kept
RECURSIVE StrSplit(_, _)
StrSplit(s, c) ==
    LET At(k) ==
            IF k = 0 THEN <<s>>
            ELSE <<SubSeq(s, 1, k - 1)>> \o StrSplit(SubSeq(s, k + 1, Len(s)), c)
    IN  At(IndexOf(s, c))

split_parts(path0, include_root) ==
    LET Pieces(path, parts) ==
            IF path = ROOT THEN (IF include_root THEN <<ROOT>> ELSE <<>>)
            ELSE IF Len(path) = 0 THEN <<>>
            ELSE IF parts[1] = <<>> /\ path[1] = SEP
                 THEN (IF include_root THEN <<ROOT>> \o Tail(parts) ELSE Tail(parts))
                 ELSE parts
        Fixed(path) == Pieces(path, StrSplit(path, SEP))
    IN  Fixed(fix_case(fix_seperator(path0)))

\* one iteration of the loop of SgaPathResolver.join
JoinStep(result, part) ==
    IF (Len(part) > 0 /\ part[1] = SEP) \/ Len(result) = 0 THEN part
    ELSE IF result[Len(result)] # SEP THEN result \o <<SEP>> \o part
    ELSE result \o part

RECURSIVE JoinFrom(_, _)
JoinFrom(result, parts) ==
    IF Len(parts) = 0 THEN result
    ELSE JoinFrom(JoinStep(result, fix_seperator(Head(parts))), Tail(parts))

join(parts) == JoinFrom(<<>>, parts)

split(path) ==
    LET Of(parts) ==
            IF Len(parts) > 0
            THEN [parent |-> join(SubSeq(parts, 1, Len(parts) - 1)),
                  child |-> parts[Len(parts)]]
            ELSE [parent |-> <<>>, child |-> path]
    IN  Of(split_parts(path, TRUE))

strip_root(path) == IF Len(path) > 0 /\ path[1] = SEP THEN Tail(path) ELSE path

basename(path) == split(path).child

\* SgaPathResolver.build(*path, alias=alias); a missing alias is has_alias = FALSE
build(parts, has_alias, alias) ==
    LET Of(full_path) ==
            IF has_alias /\ Len(alias) > 0
            THEN alias \o <<":">> \o
                 (IF Len(full_path) = 0 THEN ROOT
                  ELSE IF full_path[1] # SEP THEN ROOT \o full_path
                  ELSE full_path)
            ELSE full_path
    IN  Of(fix_case(join(parts)))

\* ------------------------------------------------------------ hashers, zlib
\* crc32.hash(data): a checksum of the byte string; on the short payloads of the
\* model distinct payloads have distinct checksums, as CRC32 has on them
RECURSIVE crc32_hash(_)
crc32_hash(data) == IF Len(data) = 0 THEN 0 ELSE Head(data) + 1 + 4 * crc32_hash(Tail(data))

\* zlib.compressobj(level=9): compress(...) + flush(); a stream header byte, then the body
zlib_compress(data) == <<120>> \o data

\* ZLibFileReader: inflates a zlib stream
zlib_decompress(data) == IF Len(data) > 0 /\ Head(data) = 120 THEN Tail(data) ELSE <<>>

\* Times.  A float or datetime timestamp is counted in half seconds, the stored
\* u32 in whole seconds, so that int() truncation is a conversion of the model.
\* RelicUnixTimeSerializer.pack: int(value), then 4 bytes little-endian
TimePack(value) == value \div 2

\* RelicUnixTimeSerializer.unpack: the stored whole seconds
TimeUnpack(buffer) == buffer

\* RelicDateTimeSerializer.unix2datetime: whole seconds -> aware datetime (UTC)
unix2datetime(value) == 2 * value

\* RelicDateTimeSerializer.datetime2unix: datetime -> float seconds
datetime2unix(value) == value

\* time.time() when SgaFsFileV2Mem is built without a modified time: 2.5 s
time_time == 2 * 2 + 1

\* ------------------------------------------------------------ archive image
\* An archive as laid out in a stream: the header fields, the ToC header pointers
\* and the five blocks.  Records of the drive, folder and file blocks are indexed
\* from 0 in the code and sit at index + 1 of the sequences here; name and data
\* entries carry their byte offset inside their block.

\* SgaNameWindow.get_name(offset): the NUL-terminated string at a byte offset
get_name(names, offset) ==
    IF \E i \in 1..Len(names) : names[i].off = offset
    THEN (CHOOSE e \in {names[i] : i \in 1..Len(names)} : e.off = offset).str
    ELSE <<"?">>

\* byte size of the names blob: every string and its NUL
RECURSIVE NamesSize(_)
NamesSize(names) == IF Len(names) = 0 THEN 0 ELSE Len(Head(names).str) + 1 + NamesSize(Tail(names))

\* byte size of the data block: every 264-byte header and its payload
RECURSIVE DataSize(_)
DataSize(data) ==
    IF Len(data) = 0 THEN 0
    ELSE DATA_HEADER_SIZE + Len(Head(data).payload) + DataSize(Tail(data))

\* the data entry whose payload starts at data_offset (its header sits 264 bytes before)
DataEntry(data, data_offset) ==
    CHOOSE e \in {data[i] : i \in 1..Len(data)} : e.off + DATA_HEADER_SIZE = data_offset

HasDataEntry(data, data_offset) ==
    \E i \in 1..Len(data) : data[i].off + DATA_HEADER_SIZE = data_offset

\* byte size of a whole image
ImageSize(img) == img.data_pos + DataSize(img.data)

\* md5.hash(stream, start, size, eigen): the digest of the eigen and the bytes of the
\* range; distinct inputs have distinct digests
md5_hash(eigen, bytes) == [eigen |-> eigen, of |-> bytes]

\* _FILE_MD5_EIGEN / _TOC_MD5_EIGEN
FILE_MD5_EIGEN == "E01519D6-2DB7-4640-AF54-0A23319C56C3"

TOC_MD5_EIGEN == "DFC9AF62-FC1B-4180-BC27-11CCE87D3EFF"

\* the bytes [180, 180 + toc_size) of an archive: the ToC header and the four blocks
TocBytes(img) ==
    [ ptrs |-> img.ptrs, drives |-> img.drives, folders |-> img.folders,
      files |-> img.files, names |-> img.names ]

\* the bytes [180, eof) of a stream the archive starts at offset 0 of: the ToC, the
\* data block and what the stream holds behind the archive
BytesToEnd(img, eof) ==
    [ toc |-> TocBytes(img), data |-> img.data, tail |-> eof - ImageSize(img) ]

\* the meta block filled in: the two digests beside toc_size and data_pos
WithDigests(img, file_md5, toc_md5) ==
    [ file_md5 |-> file_md5, toc_md5 |-> toc_md5,
      toc_size |-> img.toc_size, data_pos |-> img.data_pos, ptrs |-> img.ptrs,
      drives |-> img.drives, folders |-> img.folders, files |-> img.files,
      names |-> img.names, data |-> img.data ]

\* The archive the source stream holds when the filesystem is opened:
\*   d:\        (drive alias "d", name "n")
\*     a\x      STREAM_COMPRESS, payload <<1>>, modified 1
\*     b\y      STORE,           payload <<2>>, modified 2
SourceTables ==
    [ toc_size |-> TOC_HEADER_SIZE + DRIVE_SIZE + 3 * FOLDER_SIZE + 2 * FILE_SIZE_DOW + 9,
      data_pos |-> TOC_BLOCK_POS + DRIVE_SIZE + 3 * FOLDER_SIZE + 2 * FILE_SIZE_DOW + 9,
      ptrs     |-> [ drive  |-> [offset |-> TOC_HEADER_SIZE, count |-> 1],
                     folder |-> [offset |-> TOC_HEADER_SIZE + DRIVE_SIZE, count |-> 3],
                     file   |-> [offset |-> TOC_HEADER_SIZE + DRIVE_SIZE + 3 * FOLDER_SIZE,
                                 count |-> 2],
                     name   |-> [offset |-> TOC_HEADER_SIZE + DRIVE_SIZE + 3 * FOLDER_SIZE
                                            + 2 * FILE_SIZE_DOW,
                                 count |-> 5] ],
      drives   |-> << [alias |-> <<"d">>, name |-> <<"n">>, first_folder |-> 0,
                       last_folder |-> 3, first_file |-> 0, last_file |-> 2,
                       root_folder |-> 0] >>,
      folders  |-> << [name_offset |-> 0, first_folder |-> 1, last_folder |-> 3,
                       first_file |-> 0, last_file |-> 0],
                      [name_offset |-> 1, first_folder |-> 3, last_folder |-> 3,
                       first_file |-> 0, last_file |-> 1],
                      [name_offset |-> 3, first_folder |-> 3, last_folder |-> 3,
                       first_file |-> 1, last_file |-> 2] >>,
      files    |-> << [name_offset |-> 5, flags |-> STREAM_COMPRESS * STORAGE_TYPE_FACTOR,
                       data_offset |-> DATA_HEADER_SIZE, compressed_size |-> 2,
                       decompressed_size |-> 1],
                      [name_offset |-> 7, flags |-> STORE * STORAGE_TYPE_FACTOR,
                       data_offset |-> 2 * DATA_HEADER_SIZE + 2, compressed_size |-> 1,
                       decompressed_size |-> 1] >>,
      names    |-> << [off |-> 0, str |-> <<>>], [off |-> 1, str |-> <<"a">>],
                      [off |-> 3, str |-> <<"b">>], [off |-> 5, str |-> <<"x">>],
                      [off |-> 7, str |-> <<"y">>] >>,
      data     |-> << [off |-> 0, name |-> <<"x">>, modified |-> 1,
                       crc32 |-> crc32_hash(<<1>>), payload |-> zlib_compress(<<1>>)],
                      [off |-> DATA_HEADER_SIZE + 2, name |-> <<"y">>, modified |-> 2,
                       crc32 |-> crc32_hash(<<2>>), payload |-> <<2>>] >> ]

\* the source archive is a valid one: its digests are those of its bytes
SourceImage ==
    WithDigests(SourceTables,
                md5_hash(FILE_MD5_EIGEN, BytesToEnd(SourceTables, ImageSize(SourceTables))),
                md5_hash(TOC_MD5_EIGEN, TocBytes(SourceTables)))

\* ------------------------------------------------------------ node graph
\* A file node (SgaFsFileV2 and its backing).  While lazy, buf is the payload window
\* of the archive (compressed unless STORE); in memory, buf is the BytesIO content.
\*   [name, lazy, storage_type, modified, crc32, buf, pos, closed]
\* A folder node (SgaFsFolderV2 and its backing, or a bare SgaFsFolderV2Mem).
\* folders / files are the ordered _folders / _files maps as sequences of node ids,
\* children is the ordered _children map of an in-memory folder.
\*   [name, lazy, wrapped, folders, files, children]
\* A drive (SgaFsDriveV2 and its backing): [alias, name, lazy, root]

\* _SgaTocFileV2.storage_type getter: (flags & 0xF0) >> 4
GetStorageType(flags) == (flags \div STORAGE_TYPE_FACTOR) % STORAGE_TYPE_FACTOR

\* _SgaTocFileV2.storage_type setter: clear the masked bits, or in value << 4
SetStorageType(flags, value) ==
    (flags - GetStorageType(flags) * STORAGE_TYPE_FACTOR) + value * STORAGE_TYPE_FACTOR

\* the data header of a file: the 264 bytes in front of its payload, read in place
LazyDataHeader(img, data_offset) == DataEntry(img.data, data_offset)

\* SgaFsFileV2Lazy over a file record: name, storage type, header fields, payload window
LazyFile(img, i) ==
    LET info == img.files[i]
        Of(hdr) ==
            [ name         |-> get_name(img.names, info.name_offset),
              lazy         |-> TRUE,
              storage_type |-> GetStorageType(info.flags),
              modified     |-> unix2datetime(TimeUnpack(hdr.modified)),
              crc32        |-> hdr.crc32,
              buf          |-> SubSeq(hdr.payload, 1, info.compressed_size),
              pos          |-> 0,
              closed       |-> FALSE ]
    IN  Of(LazyDataHeader(img, info.data_offset))

\* the ids first + 1 .. last of a table slice [first : last]
Slice(first, last) == [k \in 1..(IF last > first THEN last - first ELSE 0) |-> first + k]

\* SgaFsFolderV2Lazy over a folder record: name is the basename of the stored full path,
\* _files_lookup / _folder_lookup slice the shared tables
LazyFolder(img, i) ==
    LET info == img.folders[i]
    IN  [ name     |-> basename(get_name(img.names, info.name_offset)),
          lazy     |-> TRUE,
          wrapped  |-> TRUE,
          folders  |-> Slice(info.first_folder, info.last_folder),
          files    |-> Slice(info.first_file, info.last_file),
          children |-> <<>> ]

\* SgaFsDriveV2Lazy over a drive record
LazyDrive(img, i) ==
    LET info == img.drives[i]
    IN  [ alias |-> info.alias, name |-> info.name, lazy |-> TRUE,
          root  |-> info.root_folder + 1 ]

\* EssenceFSV2._load_lazy: one lazy node per record of the three tables
load_lazy(img) ==
    [ drives  |-> [i \in 1..Len(img.drives) |-> LazyDrive(img, i)],
      folders |-> [i \in 1..Len(img.folders) |-> LazyFolder(img, i)],
      files   |-> [i \in 1..Len(img.files) |-> LazyFile(img, i)] ]

\* ------------------------------------------------------------ file nodes
\* A graph g is [drives, folders, files]; nodes are named by their index.

\* SgaFsFileV2Mem.__init__ with data and crc given: the BytesIO holds data, the
\* checksum is the one handed in, the handle is rewound
SgaFsFileV2Mem(name, storage_type, data, modified, crc) ==
    [ name |-> name, lazy |-> FALSE, storage_type |-> storage_type, modified |-> modified,
      crc32 |-> crc, buf |-> data, pos |-> 0, closed |-> FALSE ]

\* SgaFsFileV2(mem=SgaFsFileV2Mem(name=child)): no data, STORE, modified = time.time(),
\* crc32 hashed from the empty handle
NewMemFile(name) == SgaFsFileV2Mem(name, STORE, <<>>, time_time, crc32_hash(<<>>))

\* SgaFsFileV2Lazy.openbin("r") then read(): the payload window, inflated unless STORE
ReadLazy(file) ==
    IF file.storage_type # STORE THEN zlib_decompress(file.buf) ELSE file.buf

\* what read() returns on a handle just opened for reading
FileRead(file) == IF file.lazy THEN ReadLazy(file) ELSE file.buf

LazyOpenbin_permissive(file, writing) == "ok"

\* SgaFsFileV2Lazy.openbin(mode): the lazy backing refuses every writing mode
LazyOpenbin(file, writing) == IF writing THEN "RelicToolError" ELSE "ok"

\* SgaFsFileV2._unlazy
FileUnlazy_toggle(file) ==
    IF ~file.lazy THEN [file EXCEPT !.lazy = TRUE]
    ELSE SgaFsFileV2Mem(file.name, file.storage_type, ReadLazy(file), file.modified,
                        file.crc32)

FileUnlazy_raw(file) ==
    IF ~file.lazy THEN file
    ELSE SgaFsFileV2Mem(file.name, file.storage_type, file.buf, file.modified, file.crc32)

FileUnlazy(file) ==
    IF ~file.lazy THEN file
    ELSE SgaFsFileV2Mem(file.name, file.storage_type, ReadLazy(file), file.modified,
                        file.crc32)

\* SgaFsFileV2Mem.recalculate_crc32: hash the whole buffer, rewind
MemRecalculate(file) == [file EXCEPT !.crc32 = crc32_hash(file.buf), !.pos = 0]

\* SgaFsFileV2Mem.openbin(mode) entered and left at once, as SgaFsFileV2.openbin does
\* (its with-block returns the stream): the handle is rewound and, for a writing
\* mode, the checksum is recalculated, both before the caller has the handle
MemOpenbin(file, writing) == IF writing THEN MemRecalculate(file) ELSE [file EXCEPT !.pos = 0]

\* BytesIO.write(data) at the current position
BufWrite(buf, pos, data) ==
    [i \in 1..(IF pos + Len(data) > Len(buf) THEN pos + Len(data) ELSE Len(buf)) |->
        IF i > pos /\ i <= pos + Len(data) THEN data[i - pos] ELSE buf[i]]

\* ------------------------------------------------------------ folder nodes
ChildNone == [found |-> FALSE, kind |-> "none", id |-> 0]

NamesOfFiles(g, ids) == {g.files[ids[i]].name : i \in 1..Len(ids)}

NamesOfFolders(g, ids) == {g.folders[ids[i]].name : i \in 1..Len(ids)}

NamesOfChildren(children) == {children[i].name : i \in 1..Len(children)}

FileByName(g, ids, name) ==
    ids[CHOOSE i \in 1..Len(ids) : g.files[ids[i]].name = name
            /\ \A j \in (i + 1)..Len(ids) : g.files[ids[j]].name # name]

FolderByName(g, ids, name) ==
    ids[CHOOSE i \in 1..Len(ids) : g.folders[ids[i]].name = name
            /\ \A j \in (i + 1)..Len(ids) : g.folders[ids[j]].name # name]

\* SgaFsFolderV2.get_child: SgaFsFolderV2Lazy looks in its file lookup, then in its
\* folder lookup; SgaFsFolderV2Mem looks in _children
get_child(g, d, name) ==
    LET folder == g.folders[d]
    IN  IF folder.lazy
        THEN IF name \in NamesOfFiles(g, folder.files)
             THEN [found |-> TRUE, kind |-> "file", id |-> FileByName(g, folder.files, name)]
             ELSE IF name \in NamesOfFolders(g, folder.folders)
             THEN [found |-> TRUE, kind |-> "folder",
                   id |-> FolderByName(g, folder.folders, name)]
             ELSE ChildNone
        ELSE IF name \in NamesOfChildren(folder.children)
             THEN LET e == CHOOSE e \in {folder.children[i] : i \in 1..Len(folder.children)} :
                               e.name = name
                  IN  [found |-> TRUE, kind |-> e.kind, id |-> e.id]
             ELSE ChildNone

\* SgaFsFolderV2.scandir: the names a listing shows
scandir(g, d) ==
    LET folder == g.folders[d]
    IN  IF folder.lazy
        THEN NamesOfFiles(g, folder.files) \cup NamesOfFolders(g, folder.folders)
        ELSE NamesOfChildren(folder.children)

\* SgaFsFolderV2Mem._add_child: the error it raises, "ok" when it adds
AddChildError(g, folder, name) ==
    IF name \in NamesOfChildren(folder.children)
    THEN IF name \in NamesOfFiles(g, folder.files) THEN "FileExists"
         ELSE IF name \in NamesOfFolders(g, folder.folders) THEN "DirectoryExists"
         ELSE "KeyError"
    ELSE "ok"

\* SgaFsFolderV2Mem.add_file / add_folder on an in-memory folder record, when
\* _add_child raises nothing
MemAddFile(folder, name, f) ==
    [folder EXCEPT !.children = Append(@, [name |-> name, kind |-> "file", id |-> f]),
                   !.files = Append(@, f)]

MemAddFolder(folder, name, d) ==
    [folder EXCEPT !.children = Append(@, [name |-> name, kind |-> "folder", id |-> d]),
                   !.folders = Append(@, d)]

\* the loop bodies of SgaFsFolderV2._unlazy: migrate the lazy lookups into a new
\* SgaFsFolderV2Mem, folders first, then files; a colliding name raises in _add_child
RECURSIVE MigrateFolders(_, _, _)
MigrateFolders(g, folder, ids) ==
    IF Len(ids) = 0 THEN folder
    ELSE LET name == g.folders[Head(ids)].name
         IN  IF AddChildError(g, folder, name) = "ok"
             THEN MigrateFolders(g, MemAddFolder(folder, name, Head(ids)), Tail(ids))
             ELSE folder

RECURSIVE MigrateFiles(_, _, _)
MigrateFiles(g, folder, ids) ==
    IF Len(ids) = 0 THEN folder
    ELSE LET name == g.files[Head(ids)].name
         IN  IF AddChildError(g, folder, name) = "ok"
             THEN MigrateFiles(g, MemAddFile(folder, name, Head(ids)), Tail(ids))
             ELSE folder

\* SgaFsFolderV2Mem(name)
SgaFsFolderV2Mem(name, wrapped) ==
    [ name |-> name, lazy |-> FALSE, wrapped |-> wrapped, folders |-> <<>>, files |-> <<>>,
      children |-> <<>> ]

\* SgaFsFolderV2._unlazy: only this folder changes; its children are carried over
\* by reference, whatever their own state
FolderUnlazy_deep(g, d) ==
    [g EXCEPT !.folders = [k \in 1..Len(g.folders) |->
          IF g.folders[k].lazy
          THEN MigrateFiles(g, MigrateFolders(g, SgaFsFolderV2Mem(g.folders[k].name, TRUE),
                                              g.folders[k].folders), g.folders[k].files)
          ELSE g.folders[k]]]

FolderUnlazy(g, d) ==
    IF ~g.folders[d].lazy THEN g
    ELSE LET lazy == g.folders[d]
         IN  [g EXCEPT !.folders[d] =
                 MigrateFiles(g, MigrateFolders(g, SgaFsFolderV2Mem(lazy.name, TRUE),
                                                lazy.folders), lazy.files)]

\* SgaFsFolderV2._unlazy_children: promote every file of the folder, and every
\* wrapped sub-folder with its own children; a bare SgaFsFolderV2Mem has neither
\* method and is skipped
RECURSIVE FolderUnlazyChildren(_, _)
RECURSIVE UnlazySubFolders(_, _)
RECURSIVE UnlazyFiles(_, _)
UnlazyFiles(g, ids) ==
    IF Len(ids) = 0 THEN g
    ELSE UnlazyFiles([g EXCEPT !.files[Head(ids)] = FileUnlazy(@)], Tail(ids))

UnlazySubFolders(g, ids) ==
    IF Len(ids) = 0 THEN g
    ELSE IF g.folders[Head(ids)].wrapped
         THEN UnlazySubFolders(FolderUnlazyChildren(FolderUnlazy(g, Head(ids)), Head(ids)),
                               Tail(ids))
         ELSE UnlazySubFolders(g, Tail(ids))

FolderUnlazyChildren(g, d) ==
    LET Folders(g1) == UnlazySubFolders(g1, g1.folders[d].folders)
    IN  Folders(UnlazyFiles(g, g.folders[d].files))

\* SgaFsDriveV2._unlazy: promote the root folder, rebuild the drive in memory
DriveUnlazy(g, k) ==
    IF ~g.drives[k].lazy THEN g
    ELSE [(IF g.folders[g.drives[k].root].wrapped
           THEN FolderUnlazy(g, g.drives[k].root) ELSE g) EXCEPT !.drives[k].lazy = FALSE]

\* SgaFsDriveV2._unlazy_children
DriveUnlazyChildren(g, k) ==
    IF g.folders[g.drives[k].root].wrapped
    THEN FolderUnlazyChildren(g, g.drives[k].root) ELSE g

\* the loop of EssenceFSV2._unlazy over the drives
RECURSIVE UnlazyDrives(_, _)
UnlazyDrives(g, k) ==
    IF k > Len(g.drives) THEN g
    ELSE UnlazyDrives(DriveUnlazyChildren(DriveUnlazy(g, k), k), k + 1)

\* ------------------------------------------------------------ filesystem facade
\* Every facade operation is an operator from a graph to [err, g]: the error it
\* raises ("ok" for none) and the graph it leaves behind.

Raise(err, g) == [err |-> err, g |-> g]

\* position of a drive alias in the ordered _drives map, 0 when absent
DriveIndex(g, alias) ==
    IF \E k \in 1..Len(g.drives) : g.drives[k].alias = alias
    THEN CHOOSE k \in 1..Len(g.drives) : g.drives[k].alias = alias
    ELSE 0

\* the loop of EssenceFSV2._getnode_from_drive over the parts of the path
RECURSIVE WalkParts(_, _, _)
WalkParts(g, current, parts) ==
    IF Len(parts) = 0 THEN [err |-> "ok", node |-> current]
    ELSE IF ~current.found THEN [err |-> "ResourceNotFound", node |-> ChildNone]
    ELSE IF current.kind # "folder" THEN [err |-> "DirectoryExpected", node |-> ChildNone]
    ELSE WalkParts(g, get_child(g, current.id, Head(parts)), Tail(parts))

\* EssenceFSV2._getnode_from_drive
getnode_from_drive(g, k, path, exists) ==
    LET Found(r) ==
            IF r.err = "ok" /\ exists /\ ~r.node.found
            THEN [err |-> "ResourceNotFound", node |-> ChildNone]
            ELSE r
    IN  Found(WalkParts(g, [found |-> TRUE, kind |-> "folder", id |-> g.drives[k].root],
                        split_parts(path, FALSE)))

\* the loop of EssenceFSV2._getnode over every drive when the path names no alias
RECURSIVE GetnodeSearch(_, _, _, _)
GetnodeSearch(g, k, path, exists) ==
    LET Tried(r) ==
            IF r.err = "ResourceNotFound" THEN GetnodeSearch(g, k + 1, path, exists) ELSE r
    IN  IF k > Len(g.drives) THEN [err |-> "ResourceNotFound", node |-> ChildNone]
        ELSE Tried(getnode_from_drive(g, k, path, exists))

\* EssenceFSV2._getnode
getnode(g, path, exists) ==
    LET Parsed(p, k) ==
            IF p.has_alias
            THEN IF k = 0
                 THEN [err |-> "ResourceNotFound", node |-> ChildNone]
                 ELSE getnode_from_drive(g, k, p.path, exists)
            ELSE GetnodeSearch(g, 1, p.path, exists)
        Of(p) == Parsed(p, DriveIndex(g, p.alias))
    IN  Of(parse(path))

\* EssenceFSV2._try_enter_parent: [err, parent, child]
try_enter_parent(g, path) ==
    LET Entered(r, child) ==
            IF r.err # "ok" THEN [err |-> r.err, parent |-> 0, child |-> child]
            ELSE IF r.node.kind # "folder"
            THEN [err |-> "ResourceNotFound", parent |-> 0, child |-> child]
            ELSE [err |-> "ok", parent |-> r.node.id, child |-> child]
        Split(p, sp) ==
            Entered(getnode(g, build(<<sp.parent>>, p.has_alias, p.alias), TRUE), sp.child)
        Of(p) == Split(p, split(p.path))
    IN  Of(parse(path))

\* FS.opendir as makedir ends with it: the path must resolve to a directory
opendir(g, path) ==
    LET Of(r) ==
            IF r.err # "ok" THEN r.err
            ELSE IF r.node.kind # "folder" THEN "DirectoryExpected" ELSE "ok"
    IN  Of(getnode(g, path, TRUE))

\* SgaFsFolderV2.add_file(file) / SgaFsFolderV2Mem.add_file(file) for an existing
\* file node f: the wrapper promotes the folder first, then _add_child may raise
FolderAddFile(g, d, f) ==
    LET Added(g1, err) ==
            IF err # "ok" THEN Raise(err, g1)
            ELSE Raise("ok", [g1 EXCEPT !.folders[d] = MemAddFile(@, g1.files[f].name, f)])
        Promoted(g1) == Added(g1, AddChildError(g1, g1.folders[d], g1.files[f].name))
    IN  Promoted(IF g.folders[d].wrapped THEN FolderUnlazy(g, d) ELSE g)

\* SgaFsFolderV2.add_folder(SgaFsFolderV2Mem(name)): the new folder is a bare
\* in-memory folder, appended to the graph when it is attached
FolderAddFolder(g, d, name) ==
    LET Added(g1, err) ==
            IF err # "ok" THEN Raise(err, g1)
            ELSE Raise("ok", [g1 EXCEPT !.folders =
                     Append([@ EXCEPT ![d] = MemAddFolder(@, name, Len(g1.folders) + 1)],
                            SgaFsFolderV2Mem(name, FALSE))])
        Promoted(g1) == Added(g1, AddChildError(g1, g1.folders[d], name))
    IN  Promoted(IF g.folders[d].wrapped THEN FolderUnlazy(g, d) ELSE g)

\* SgaFsFolderV2.remove_file(name): no promotion; the lazy backing refuses, the
\* in-memory backing closes the file and deletes it from _files only
FolderRemoveFile(g, d, name) ==
    LET folder == g.folders[d]
        Removed(f) ==
            Raise("ok", [g EXCEPT
                !.files[f].closed = IF g.files[f].lazy THEN @ ELSE TRUE,
                !.folders[d].files = SelectSeq(@, LAMBDA i : i # f)])
    IN  IF folder.lazy THEN Raise("RelicToolError", g)
        ELSE IF name \notin NamesOfChildren(folder.children) THEN Raise("ResourceNotFound", g)
        ELSE IF name \notin NamesOfFiles(g, folder.files) THEN Raise("FileExpected", g)
        ELSE Removed(FileByName(g, folder.files, name))

\* _SgaFsFolderV2.empty(), inherited by every folder class: the body is "pass", the
\* call returns None, which "not" turns into True
empty(g, d) == FALSE

\* SgaFsFolderV2.remove_folder(name)
FolderRemoveFolder(g, d, name) ==
    LET folder == g.folders[d]
        Removed(c) ==
            IF ~empty(g, c) THEN Raise("DirectoryNotEmpty", g)
            ELSE Raise("ok", [g EXCEPT
                     !.folders[d].folders = SelectSeq(@, LAMBDA i : i # c)])
    IN  IF folder.lazy THEN Raise("RelicToolError", g)
        ELSE IF name \notin NamesOfChildren(folder.children) THEN Raise("ResourceNotFound", g)
        ELSE IF name \notin NamesOfFolders(g, folder.folders)
        THEN Raise("DirectoryExpected", g)
        ELSE Removed(FolderByName(g, folder.folders, name))

\* fs.mode.Mode(mode).writing / .create for the modes used here
ModeWriting(mode) == mode \in {"w", "a", "r+"}

ModeCreate(mode) == mode \in {"w", "a"}

\* SgaFsFileV2.openbin(mode) on file node f: a writing mode promotes the node, then
\* the backing is opened
FileOpenbin(g, f, mode) ==
    LET Backing(g1, file) ==
            IF file.lazy THEN Raise(LazyOpenbin(file, ModeWriting(mode)), g1)
            ELSE IF file.closed THEN Raise("ValueError", g1)
            ELSE Raise("ok", [g1 EXCEPT !.files[f] = MemOpenbin(@, ModeWriting(mode))])
        Promoted(g1) == Backing(g1, g1.files[f])
    IN  Promoted(IF ModeWriting(mode) THEN [g EXCEPT !.files[f] = FileUnlazy(@)] ELSE g)

\* EssenceFSV2.openbin: [err, g, f], f the file node the returned handle writes to
openbin(g, path, mode) ==
    LET Opened(o, f) == [err |-> o.err, g |-> o.g, f |-> f]
        Created(a, f) ==
            IF a.err # "ok"
            THEN [err |-> a.err, f |-> 0,
                  g |-> [a.g EXCEPT !.files = SubSeq(@, 1, Len(@) - 1)]]
            ELSE Opened(FileOpenbin(a.g, f, mode), f)
        Child(e, c) ==
            IF ~c.found
            THEN IF ModeCreate(mode)
                 THEN Created(FolderAddFile([g EXCEPT !.files = Append(@, NewMemFile(e.child))],
                                            e.parent, Len(g.files) + 1),
                              Len(g.files) + 1)
                 ELSE [err |-> "ResourceNotFound", g |-> g, f |-> 0]
            ELSE IF c.kind = "folder" THEN [err |-> "FileExpected", g |-> g, f |-> 0]
            ELSE Opened(FileOpenbin(g, c.id, mode), c.id)
        Entered(e) ==
            IF e.err # "ok" THEN [err |-> e.err, g |-> g, f |-> 0]
            ELSE Child(e, get_child(g, e.parent, e.child))
    IN  Entered(try_enter_parent(g, path))

\* FS.readbytes(path): openbin(path, "rb"), read() to the end, close the wrapper;
\* [err, g, data]
readbytes(g, path) ==
    LET Of(o) ==
            IF o.err # "ok" THEN [err |-> o.err, g |-> o.g, data |-> <<>>]
            ELSE [err |-> "ok",
                  g |-> IF o.g.files[o.f].lazy THEN o.g
                        ELSE [o.g EXCEPT !.files[o.f].pos = Len(o.g.files[o.f].buf)],
                  data |-> FileRead(o.g.files[o.f])]
    IN  Of(openbin(g, path, "r"))

\* a create_drive that puts a fresh drive in the place of the drive that holds the alias
create_drive_replacing(g, name, alias) ==
    Raise("ok", [g EXCEPT
        !.folders = Append(@, SgaFsFolderV2Mem(<<>>, TRUE)),
        !.drives = IF DriveIndex(g, alias) # 0
                   THEN [@ EXCEPT ![DriveIndex(g, alias)] =
                            [alias |-> alias, name |-> name, lazy |-> FALSE,
                             root |-> Len(g.folders) + 1]]
                   ELSE Append(@, [alias |-> alias, name |-> name, lazy |-> FALSE,
                                   root |-> Len(g.folders) + 1])])

\* EssenceFSV2.create_drive("", alias) as makedir calls it
create_drive(g, name, alias) ==
    IF DriveIndex(g, alias) # 0 THEN Raise("DriveExistsError", g)
    ELSE Raise("ok", [g EXCEPT
             !.folders = Append(@, SgaFsFolderV2Mem(<<>>, TRUE)),
             !.drives = Append(@, [alias |-> alias, name |-> name, lazy |-> FALSE,
                                   root |-> Len(g.folders) + 1])])

\* EssenceFSV2.makedir
makedir(g, path, recreate) ==
    LET Drive(c) ==
            IF c.err # "ok" /\ ~recreate THEN Raise("DirectoryExists", g)
            ELSE Raise(opendir(c.g, path), c.g)
        Added(a) ==
            IF a.err = "DirectoryExists" /\ ~recreate THEN a
            ELSE IF a.err = "FileExists" THEN Raise("DirectoryExpected", a.g)
            ELSE IF a.err = "KeyError" THEN a
            ELSE Raise(opendir(a.g, path), a.g)
        Entered(e) ==
            IF e.err # "ok" THEN Raise(e.err, g)
            ELSE Added(FolderAddFolder(g, e.parent, e.child))
        Of(p) ==
            IF p.has_alias /\ p.path = ROOT
            THEN Drive(create_drive(g, <<>>, p.alias))
            ELSE Entered(try_enter_parent(g, path))
    IN  Of(parse(path))

\* EssenceFSV2.remove: the alias of the path is parsed off and not used again
remove(g, path) ==
    LET Entered(e) ==
            IF e.err # "ok" THEN Raise(e.err, g)
            ELSE FolderRemoveFile(g, e.parent, e.child)
        Of(p) ==
            IF p.path = ROOT THEN Raise("FileExpected", g)
            ELSE Entered(try_enter_parent(g, p.path))
    IN  Of(parse(path))

\* EssenceFSV2.removedir
removedir(g, path) ==
    LET Entered(e) ==
            IF e.err # "ok" THEN Raise(e.err, g)
            ELSE FolderRemoveFolder(g, e.parent, e.child)
        Of(p) ==
            IF p.path = ROOT THEN Raise("RemoveRootError", g)
            ELSE Entered(try_enter_parent(g, p.path))
    IN  Of(parse(path))

\* SgaFsFileV2Mem.setinfo: info is [has_modified, modified, has_storage, storage_type]
MemSetinfo(file, info) ==
    [file EXCEPT !.modified = IF info.has_modified THEN info.modified ELSE @,
                 !.storage_type = IF info.has_storage THEN info.storage_type ELSE @]

\* EssenceFSV2.setinfo: a file node promotes itself and sets the fields; a wrapped
\* folder promotes itself and then calls itself without end; a bare in-memory
\* folder refuses
setinfo(g, path, info) ==
    LET Of(r) ==
            IF r.err # "ok" THEN Raise(r.err, g)
            ELSE IF r.node.kind = "file"
            THEN Raise("ok", [g EXCEPT !.files[r.node.id] = MemSetinfo(FileUnlazy(@), info)])
            ELSE IF g.folders[r.node.id].wrapped
            THEN Raise("RecursionError", FolderUnlazy(g, r.node.id))
            ELSE Raise("RelicToolError", g)
    IN  Of(getnode(g, path, TRUE))

\* SgaFsFileV2.recalculate_crc32 on the node a path names
recalculate_crc32(g, path) ==
    LET Of(r) ==
            IF r.err # "ok" THEN Raise(r.err, g)
            ELSE IF r.node.kind # "file" THEN Raise("AttributeError", g)
            ELSE IF ~g.files[r.node.id].lazy /\ g.files[r.node.id].closed
            THEN Raise("ValueError", g)
            ELSE Raise("ok", [g EXCEPT !.files[r.node.id] = MemRecalculate(FileUnlazy(@))])
    IN  Of(getnode(g, path, TRUE))

\* getinfo(path, ["essence"]).get("essence", "crc32"): the checksum the node reports
reported_crc32(g, path) == g.files[getnode(g, path, TRUE).node.id].crc32

\* ------------------------------------------------------------ disassembler
\* The disassembler state t holds the five blocks being built: names as
\* [off, str] entries, the drive, folder and file records, the data entries, and
\* the set of file nodes whose handle was read.

\* code point order of the characters used here, for sorted(key=name)
Ord(c) ==
    CASE c = "/" -> 1 [] c = ":" -> 2 [] c = "A" -> 3 [] c = "B" -> 4 [] c = "D" -> 5
      [] c = "N" -> 6 [] c = "X" -> 7 [] c = "Y" -> 8 [] c = "\\" -> 9 [] c = "a" -> 10
      [] c = "b" -> 11 [] c = "d" -> 12 [] c = "e" -> 13 [] c = "m" -> 14
      [] c = "n" -> 15 [] c = "x" -> 16 [] c = "y" -> 17 [] OTHER -> 18

\* str.__lt__ on two names
RECURSIVE NameLess(_, _)
NameLess(a, b) ==
    IF Len(b) = 0 THEN FALSE
    ELSE IF Len(a) = 0 THEN TRUE
    ELSE IF Ord(Head(a)) # Ord(Head(b)) THEN Ord(Head(a)) < Ord(Head(b))
    ELSE NameLess(Tail(a), Tail(b))

\* sorted(folders, key=lambda x: x.name): stable, ascending
RECURSIVE SortedByName(_, _)
SortedByName(g, ids) ==
    IF Len(ids) = 0 THEN <<>>
    ELSE LET First(m) ==
                 <<ids[m]>> \o SortedByName(g, [k \in 1..(Len(ids) - 1) |->
                                                   IF k < m THEN ids[k] ELSE ids[k + 1]])
         IN  First(CHOOSE i \in 1..Len(ids) :
                      /\ \A j \in 1..Len(ids) :
                             ~NameLess(g.folders[ids[j]].name, g.folders[ids[i]].name)
                      /\ \A j \in 1..(i - 1) :
                             NameLess(g.folders[ids[j]].name, g.folders[ids[i]].name)
                                 \/ NameLess(g.folders[ids[i]].name, g.folders[ids[j]].name))

\* _V2TocDisassembler.__init__
NewDisassembler ==
    [ names |-> <<>>, drives |-> <<>>, folders |-> <<>>, files |-> <<>>, data |-> <<>>,
      read |-> {}, folder_count |-> 0, log |-> <<>> ]

\* the key _write_name_to_table stores a name under: separators fixed, alias
\* parsed off, root stripped; the case is kept
TableName(name) == strip_root(parse(fix_seperator(name)).path)

\* _V2TocDisassembler.write_name: the block after the call ...
write_name(t, name) ==
    LET Keyed(key) ==
            IF \E i \in 1..Len(t.names) : t.names[i].str = key THEN t
            ELSE [t EXCEPT !.names = Append(@, [off |-> NamesSize(@), str |-> key])]
    IN  Keyed(TableName(name))

\* ... and the offset it returns
name_offset_of(t, name) ==
    (CHOOSE e \in {t.names[i] : i \in 1..Len(t.names)} : e.str = TableName(name)).off

\* _V2TocDisassembler.write_data: a 264-byte header (name, modified packed to whole
\* seconds, checksum hashed from the content) and the payload, raw or deflated
write_data(t, name, modified, uncompressed, storage_type) ==
    [t EXCEPT !.data = Append(@,
        [ off      |-> DataSize(@),
          name     |-> name,
          modified |-> TimePack(datetime2unix(modified)),
          crc32    |-> crc32_hash(uncompressed),
          payload  |-> IF storage_type = STORE THEN uncompressed
                       ELSE zlib_compress(uncompressed) ])]

\* _V2TocDisassembler.write_folder() with no window: a blank record is appended
BlankFolder ==
    [name_offset |-> 0, first_folder |-> 0, last_folder |-> 0, first_file |-> 0,
     last_file |-> 0]

write_folder_recount(t, has_window, window_start, record) ==
    IF has_window
    THEN [t EXCEPT !.folders[window_start + 1] = record,
                   !.folder_count = @ + 1,
                   !.log = Append(@, [at |-> window_start, blank |-> FALSE,
                                      counted |-> TRUE, folders |-> t.folder_count,
                                      files |-> Len(t.files)])]
    ELSE [t EXCEPT !.folders = Append(@, record),
                   !.folder_count = @ + 1,
                   !.log = Append(@, [at |-> Len(t.folders), blank |-> record = BlankFolder,
                                      counted |-> TRUE, folders |-> t.folder_count,
                                      files |-> Len(t.files)])]

\* _V2TocDisassembler.write_folder: with no window a blank record is appended and
\* counted, then the fields given are set in the window; log keeps, for every call,
\* the record written to and the counters at that time
write_folder(t, has_window, window_start, record) ==
    IF has_window
    THEN [t EXCEPT !.folders[window_start + 1] = record,
                   !.log = Append(@, [at |-> window_start, blank |-> FALSE,
                                      counted |-> FALSE, folders |-> t.folder_count,
                                      files |-> Len(t.files)])]
    ELSE [t EXCEPT !.folders = Append(@, record),
                   !.folder_count = @ + 1,
                   !.log = Append(@, [at |-> Len(t.folders), blank |-> record = BlankFolder,
                                      counted |-> TRUE, folders |-> t.folder_count,
                                      files |-> Len(t.files)])]

\* SgaFsV2TocDisassembler.write_fs_sub_folders: one blank record per sub-folder
RECURSIVE write_fs_sub_folders(_, _)
write_fs_sub_folders(t, n) ==
    IF n = 0 THEN t
    ELSE write_fs_sub_folders(write_folder(t, FALSE, 0, BlankFolder), n - 1)

\* SgaFsV2TocDisassembler.write_fs_file
write_fs_file(t, g, f) ==
    LET file == g.files[f]
        Record(t2, e, name_offset, data) ==
            [t2 EXCEPT !.files = Append(@,
                           [ name_offset       |-> name_offset,
                             flags             |-> SetStorageType(0, file.storage_type),
                             data_offset       |-> e.off + DATA_HEADER_SIZE,
                             compressed_size   |-> Len(e.payload),
                             decompressed_size |-> Len(data) ]),
                       !.read = @ \cup {f}]
        Named(t1, data) ==
            Then({Record(t2, t2.data[Len(t2.data)], name_offset_of(t1, file.name), data) :
                    t2 \in {write_data(t1, file.name, file.modified, data,
                                       file.storage_type)}})
    IN  Then({Named(t1, data) : t1 \in {write_name(t, file.name)}, data \in {FileRead(file)}})

\* the loop of write_fs_tree_names over the sorted sub-folders: their full paths
RECURSIVE WriteSubNames(_, _, _, _)
WriteSubNames(t, g, ids, parent_full_path) ==
    IF Len(ids) = 0 THEN t
    ELSE Then({WriteSubNames(t1, g, Tail(ids), parent_full_path) :
                 t1 \in {write_name(t, parse(join(<<parent_full_path,
                                                    g.folders[Head(ids)].name>>)).path)}})

\* SgaFsV2TocDisassembler.write_fs_tree_names: folder paths only, parents first
RECURSIVE write_fs_tree_names(_, _, _, _, _)
RECURSIVE TreeNamesOfSubs(_, _, _, _)
TreeNamesOfSubs(t, g, ids, parent_full_path) ==
    IF Len(ids) = 0 THEN t
    ELSE Then({TreeNamesOfSubs(t1, g, Tail(ids), parent_full_path) :
                 t1 \in {write_fs_tree_names(t, g, Head(ids), parent_full_path, TRUE)}})

write_fs_tree_names(t, g, d, path, has_path) ==
    LET Subs(t2, subs, parent_full_path) == TreeNamesOfSubs(t2, g, subs, parent_full_path)
        Named(t1, subs, parent_full_path) ==
            Then({Subs(t2, subs, parent_full_path) :
                    t2 \in {WriteSubNames(t1, g, subs, parent_full_path)}})
        Pathed(subs, parent_full_path) ==
            Then({Named(t1, subs, parent_full_path) : t1 \in {write_name(t, parent_full_path)}})
    IN  Then({Pathed(subs, parent_full_path) :
                subs \in {SortedByName(g, g.folders[d].folders)},
                parent_full_path \in {IF has_path THEN join(<<path, g.folders[d].name>>)
                                      ELSE g.folders[d].name}})

\* the loop of write_fs_folder over the files
RECURSIVE WriteFiles(_, _, _)
WriteFiles(t, g, ids) ==
    IF Len(ids) = 0 THEN t
    ELSE Then({WriteFiles(t1, g, Tail(ids)) : t1 \in {write_fs_file(t, g, Head(ids))}})

\* SgaFsV2TocDisassembler.write_fs_folder: name, blank records for the sub-folders,
\* each sub-folder into its blank, the files, then the record at write_back
\* (the index of the folder's own blank record)
RECURSIVE write_fs_folder(_, _, _, _, _)
RECURSIVE WriteSubFolders(_, _, _, _, _)
WriteSubFolders(t, g, ids, full_path, wb) ==
    IF Len(ids) = 0 THEN t
    ELSE Then({WriteSubFolders(t1, g, Tail(ids), full_path, wb + 1) :
                 t1 \in {write_fs_folder(t, g, Head(ids), full_path, wb)}})

\* write_fs_folder taking file_start before the sub-folders are written
write_fs_folder_early_files(t, g, d, path, write_back) ==
    LET folder == g.folders[d]
        Record(t4, name_offset, folder_start, folder_end, file_start, file_end) ==
            write_folder(t4, TRUE, write_back,
                [ name_offset  |-> name_offset,
                  first_folder |-> folder_start,
                  last_folder  |-> folder_end,
                  first_file   |-> IF file_start = file_end THEN 0 ELSE file_start,
                  last_file    |-> IF file_start = file_end THEN 0 ELSE file_end ])
        Foldered(t1, t3, name_offset, folder_start, folder_end) ==
            Then({Record(t4, name_offset, folder_start, folder_end, Len(t1.files),
                         Len(t4.files)) :
                    t4 \in {WriteFiles(t3, g, folder.files)}})
        Named(t1, full_path) ==
            Then({Foldered(t1, t3, name_offset_of(t1, full_path), t1.folder_count,
                           t1.folder_count + Len(folder.folders)) :
                    t3 \in {WriteSubFolders(
                                write_fs_sub_folders(t1, Len(folder.folders)),
                                g, folder.folders, full_path, Len(t1.folders))}})
        Pathed(full_path) ==
            Then({Named(t1, full_path) : t1 \in {write_name(t, full_path)}})
    IN  Then({Pathed(full_path) : full_path \in {join(<<path, folder.name>>)}})

write_fs_folder(t, g, d, path, write_back) ==
    LET folder == g.folders[d]
        Record(t4, name_offset, folder_start, folder_end, file_start, file_end) ==
            write_folder(t4, TRUE, write_back,
                [ name_offset  |-> name_offset,
                  first_folder |-> folder_start,
                  last_folder  |-> folder_end,
                  first_file   |-> IF file_start = file_end THEN 0 ELSE file_start,
                  last_file    |-> IF file_start = file_end THEN 0 ELSE file_end ])
        Foldered(t3, name_offset, folder_start, folder_end) ==
            Then({Record(t4, name_offset, folder_start, folder_end, Len(t3.files),
                         Len(t4.files)) :
                    t4 \in {WriteFiles(t3, g, folder.files)}})
        Named(t1, full_path) ==
            Then({Foldered(t3, name_offset_of(t1, full_path), t1.folder_count,
                           t1.folder_count + Len(folder.folders)) :
                    t3 \in {WriteSubFolders(
                                write_fs_sub_folders(t1, Len(folder.folders)),
                                g, folder.folders, full_path, Len(t1.folders))}})
        Pathed(full_path) ==
            Then({Named(t1, full_path) : t1 \in {write_name(t, full_path)}})
    IN  Then({Pathed(full_path) : full_path \in {join(<<path, folder.name>>)}})

write_fs_drive_from_zero(t, g, k) ==
    LET drive == g.drives[k]
        Record(t3, folder_start, file_start) ==
            [t3 EXCEPT !.drives = Append(@,
                [ alias |-> drive.alias, name |-> drive.name, first_folder |-> 0,
                  last_folder |-> t3.folder_count, first_file |-> 0,
                  last_file |-> Len(t3.files), root_folder |-> folder_start ])]
        Named(t1) ==
            Then({Record(t3, t1.folder_count, Len(t1.files)) :
                    t3 \in {write_fs_folder(write_folder(t1, FALSE, 0, BlankFolder), g,
                                            drive.root, build(<<>>, TRUE, drive.alias),
                                            Len(t1.folders))}})
    IN  Then({Named(t1) : t1 \in {write_fs_tree_names(t, g, drive.root, <<>>, FALSE)}})

\* SgaFsV2TocDisassembler.write_fs_drive
write_fs_drive(t, g, k) ==
    LET drive == g.drives[k]
        Record(t3, folder_start, file_start) ==
            [t3 EXCEPT !.drives = Append(@,
                [ alias |-> drive.alias, name |-> drive.name, first_folder |-> folder_start,
                  last_folder |-> t3.folder_count, first_file |-> file_start,
                  last_file |-> Len(t3.files), root_folder |-> folder_start ])]
        Named(t1) ==
            Then({Record(t3, t1.folder_count, Len(t1.files)) :
                    t3 \in {write_fs_folder(write_folder(t1, FALSE, 0, BlankFolder), g,
                                            drive.root, build(<<>>, TRUE, drive.alias),
                                            Len(t1.folders))}})
    IN  Then({Named(t1) : t1 \in {write_fs_tree_names(t, g, drive.root, <<>>, FALSE)}})

\* SgaFsV2TocDisassembler._disassemble_fs
RECURSIVE DisassembleDrives(_, _, _)
DisassembleDrives(t, g, k) ==
    IF k > Len(g.drives) THEN t
    ELSE Then({DisassembleDrives(t1, g, k + 1) : t1 \in {write_fs_drive(t, g, k)}})

disassemble(g) == DisassembleDrives(NewDisassembler, g, 1)

\* ------------------------------------------------------------ serializer
\* A stream is [img, size, pos, readable, writable]: img is <<image>> when the bytes
\* from offset 0 parse as that archive and <<>> when they do not, size the number
\* of bytes, pos the stream position.

Max(a, b) == IF a > b THEN a ELSE b

\* BytesIO()
EmptyStream == [img |-> <<>>, size |-> 0, pos |-> 0, readable |-> TRUE, writable |-> TRUE]

BuildImage_dynamic(t) ==
    LET drive_pos  == TOC_BLOCK_POS - TOC_HEADER_POS
        folder_pos == drive_pos + DRIVE_SIZE * Len(t.drives)
        file_pos   == folder_pos + FOLDER_SIZE * Len(t.folders)
        name_pos   == file_pos + FILE_SIZE_DOW * Len(t.files)
        toc_end    == name_pos + NamesSize(t.names)
    IN  [ toc_size |-> toc_end - TOC_HEADER_SIZE,
          data_pos |-> TOC_HEADER_POS + toc_end,
          ptrs     |-> [ drive  |-> [offset |-> drive_pos, count |-> Len(t.drives)],
                         folder |-> [offset |-> folder_pos, count |-> t.folder_count],
                         file   |-> [offset |-> file_pos, count |-> Len(t.files)],
                         name   |-> [offset |-> name_pos, count |-> Len(t.names)] ],
          drives   |-> t.drives,
          folders  |-> t.folders,
          files    |-> t.files,
          names    |-> t.names,
          data     |-> t.data ]

\* the image the blocks of a finished disassembler splice into (_SgaV2Serializer.write_toc
\* for the block positions, relative to the ToC header; name_count = len(name_table))
BuildImage(t) ==
    LET drive_pos  == TOC_BLOCK_POS - TOC_HEADER_POS
        folder_pos == drive_pos + DRIVE_SIZE * Len(t.drives)
        file_pos   == folder_pos + FOLDER_SIZE * Len(t.folders)
        name_pos   == file_pos + FILE_SIZE_DOW * Len(t.files)
        toc_end    == name_pos + NamesSize(t.names)
    IN  [ toc_size |-> toc_end,
          data_pos |-> TOC_HEADER_POS + toc_end,
          ptrs     |-> [ drive  |-> [offset |-> drive_pos, count |-> Len(t.drives)],
                         folder |-> [offset |-> folder_pos, count |-> t.folder_count],
                         file   |-> [offset |-> file_pos, count |-> Len(t.files)],
                         name   |-> [offset |-> name_pos, count |-> Len(t.names)] ],
          drives   |-> t.drives,
          folders  |-> t.folders,
          files    |-> t.files,
          names    |-> t.names,
          data     |-> t.data ]

\* first pass of _SgaV2Serializer.write on the working handle: magic and version,
\* a blank meta block, a blank ToC header
WriteSkeleton(h) ==
    [h EXCEPT !.img = <<>>, !.size = Max(@, TOC_BLOCK_POS), !.pos = TOC_BLOCK_POS]

\* the body: the four ToC blocks, then the data block
WriteBody(h, image) ==
    [h EXCEPT !.img = <<>>, !.size = Max(@, ImageSize(image)), !.pos = ImageSize(image)]

\* second pass: seek to the ToC header and fill the pointers in
PatchToc(h) == [h EXCEPT !.pos = TOC_HEADER_POS]

\* third pass: hash, seek to the archive header and fill the meta block in; from
\* here on the bytes parse as the image
PatchMeta(h, image) ==
    [h EXCEPT !.img = <<WithDigests(image,
                                    md5_hash(FILE_MD5_EIGEN, BytesToEnd(image, h.size)),
                                    md5_hash(TOC_MD5_EIGEN, TocBytes(image)))>>,
              !.pos = ARCHIVE_HEADER_POS]

\* chunk_copy(working_handle, out, src_start=0): every byte of the working handle,
\* written at the position out is at
ChunkCopy(h, out) ==
    [out EXCEPT
        !.img  = IF out.pos = 0 THEN h.img
                 ELSE IF Len(@) = 1 /\ out.pos >= ImageSize(@[1]) THEN @ ELSE <<>>,
        !.size = Max(@, out.pos + h.size),
        !.pos  = out.pos + h.size]

\* _SgaV2Serializer.__init__: a private buffer in safe mode or when out cannot be
\* both read and written, else out itself
UseBuffer_never(out, safe_mode) == FALSE

UseBuffer(out, safe_mode) == safe_mode \/ ~(out.writable /\ out.readable)

\* the handles of the in-memory files the disassembler read end at their last byte
MarkRead(g, read) ==
    [g EXCEPT !.files = [f \in 1..Len(g.files) |->
        IF f \in read /\ ~g.files[f].lazy
        THEN [g.files[f] EXCEPT !.pos = Len(g.files[f].buf)] ELSE g.files[f]]]

\* SgaFsV2Packer.serialize_sga(fs, out, safe_mode): the whole of
\* _SgaV2Serializer.write; [err, out, g, wrote], wrote telling whether a byte of
\* out was written
SerializerWrite(g, out, safe_mode) ==
    LET Patched(h4, read) ==
            [err |-> "ok",
             out |-> IF UseBuffer(out, safe_mode) THEN ChunkCopy(h4, out) ELSE h4,
             g |-> MarkRead(g, read), wrote |-> TRUE]
        Built(h0, read, image) ==
            IF ~out.writable
            THEN [err |-> "UnsupportedOperation", out |-> out, g |-> MarkRead(g, read),
                  wrote |-> FALSE]
            ELSE Patched(PatchMeta(PatchToc(WriteBody(WriteSkeleton(h0), image)), image), read)
        Working(h0) ==
            IF h0.pos # 0
            THEN [err |-> "RelicToolError", out |-> out, g |-> g, wrote |-> FALSE]
            ELSE Then({Built(h0, t.read, BuildImage(t)) : t \in {disassemble(g)}})
    IN  Working(IF UseBuffer(out, safe_mode) THEN EmptyStream ELSE out)

\* EssenceFSV2._unlazy on [g, lazy_file, stream]: every drive and its children
\* promoted, the parsed file dropped, the stream rewound
EssenceUnlazy(a) ==
    IF ~a.lazy_file THEN a
    ELSE [g |-> UnlazyDrives(a.g, 1), lazy_file |-> FALSE,
          stream |-> [a.stream EXCEPT !.pos = 0]]

\* ------------------------------------------------------------ state
\* drives, folders, files : the node graph of the open EssenceFSV2
\* lazy_file              : _lazy_file is not None
\* stream                 : _stream, the source stream the archive was parsed from
\* dst                    : the stream last handed to save(out) as a separate target
\* handles                : file nodes a caller holds a handle on, opened for writing
\* fate                   : "open", "closed" after __exit__, or "clobbered" once the
\*                          source stream was written under lazy nodes, whose
\*                          windows then read other bytes; not followed further
\* ops                    : number of facade calls so far
\* last_save              : what the last save call did: its out argument, whether it
\*                          wrote the source stream, and whether a node was still
\*                          lazy when the first byte went out
\* ser                    : one run of _SgaV2Serializer pass by pass (SpecWrite):
\*                          [pc, safe_mode, out0, out, h, buffered, image]
\* vfy                    : an SgaFileV2 and its verifier cache (SpecVerify)
\* pool                   : one call of SgaVerifierV2.verify_file_parallel (SpecPool)
\* lk                     : one in-memory file, its lock and the threads writing to it
\*                          (SpecLock)
VARIABLES drives, folders, files, lazy_file, stream, dst, handles, fate, ops, last_save, ser, vfy,
          pool, lk, fmt, arc, nat, toch, opn

vars == <<drives, folders, files, lazy_file, stream, dst, handles, fate, ops, last_save, ser, vfy,
          pool, lk, fmt, arc, nat, toch, opn>>

\* the variables of the filesystem and of a serializer run
fs_vars == <<drives, folders, files, lazy_file, stream, dst, handles, fate, ops, last_save, ser>>

\* the variables of what is modelled apart from the filesystem
side == <<vfy, pool, lk, fmt, arc, nat, toch, opn>>

\* no SgaFileV2 under observation
NoVerifier ==
    [ writable |-> FALSE, toc |-> 0, data |-> 0,
      file_md5 |-> md5_hash(FILE_MD5_EIGEN, <<0, 0>>),
      toc_md5 |-> md5_hash(TOC_MD5_EIGEN, <<0>>),
      verified_file |-> <<>>, verified_header |-> <<>>,
      asked |-> "none", answer |-> "none", current |-> "none" ]

\* no parallel verification under way
NoPool ==
    [ pc |-> "idle", entries |-> <<>>, num_workers |-> 0, queue |-> <<>>,
      running |-> <<>>, futures |-> <<>>, order |-> <<>>, results |-> <<>> ]

\* no file with writer threads under observation
NoLock == [ owner |-> 0, depth |-> 0, buf |-> <<>>, pos |-> 0, crc32 |-> 0, pc |-> <<>>,
            left |-> <<>> ]

\* no table of contents has been opened
NoFormat == [ pc |-> "closed", variant |-> "None", ptrs |-> <<>>, toc_end |-> 0, base |-> 0,
              bytes |-> <<>>, hint |-> "None", game_format |-> "None", err |-> "ok",
              files |-> <<>>, out |-> [err |-> "none", file_block |-> 0, file_count |-> 0] ]

\* nat while no fsspec filesystem is modelled
NoNative == [ pc |-> "idle", root |-> <<>>, calls |-> 0, out |-> <<>> ]

\* no ToC header is being parsed by the native parser
NoHeader == [ pc |-> "idle", layout |-> <<>>, toc |-> <<>>, toc_size |-> 0, ptrs |-> <<>>,
              names |-> {} ]

\* an archive file on disk: whether it is there, the archive its bytes parse as, its size
NoResource == [exists |-> FALSE, img |-> <<>>, size |-> 0]

\* the opener has not been called
NoOpener == [ pc |-> "idle", before |-> NoResource, disk |-> NoResource, writeable |-> FALSE,
              create |-> FALSE, game |-> "None", err |-> "none" ]

\* no manifest is being packed
NoArciv == [ pc |-> "idle", TOCList |-> <<>>, t |-> <<>>, next |-> 0 ]

G == [drives |-> drives, folders |-> folders, files |-> files]

\* EssenceFSV2.__init__(..., editable=True): _update_stream
editable == TRUE

\* paths the callers of the model use
P_x == <<"d", ":", "\\", "a", "\\", "x">>
P_y == <<"d", ":", "\\", "b", "\\", "y">>
P_n == <<"d", ":", "\\", "a", "\\", "n">>
P_a == <<"d", ":", "\\", "a">>
P_m == <<"d", ":", "\\", "a", "\\", "m">>
P_e == <<"e", ":", "\\">>
P_z == <<"e", ":", "\\", "z">>

FilePaths == {P_x, P_y, P_n, P_z}

DirPaths == {P_a, P_m, P_e}

WriteData == {<<3>>}

\* info dictionaries handed to setinfo: a modified time, or a storage type
InfoInputs ==
    { [has_modified |-> TRUE, modified |-> unix2datetime(3), has_storage |-> FALSE,
       storage_type |-> STORE],
      [has_modified |-> FALSE, modified |-> 0, has_storage |-> TRUE,
       storage_type |-> BUFFER_COMPRESS] }

\* streams a caller hands to save(out): a fresh BytesIO, a fresh write-only file
Targets == {EmptyStream, [EmptyStream EXCEPT !.readable = FALSE]}

\* the nodes a folder leads to: itself, what its _files and _folders hold and what
\* its _children map resolves, followed down
RECURSIVE FolderNodes(_, _)
FolderNodes(g, d) ==
    LET folder == g.folders[d]
        kept(kind) == {folder.children[i].id :
                          i \in {j \in 1..Len(folder.children) : folder.children[j].kind = kind}}
    IN  {[kind |-> "folder", id |-> d]}
          \cup {[kind |-> "file", id |-> f] :
                   f \in {folder.files[i] : i \in 1..Len(folder.files)} \cup kept("file")}
          \cup UNION {FolderNodes(g, s) :
                   s \in {folder.folders[i] : i \in 1..Len(folder.folders)} \cup kept("folder")}

\* every drive, folder and file node the archive leads to
ArchiveNodes(g) ==
    {[kind |-> "drive", id |-> k] : k \in 1..Len(g.drives)}
      \cup UNION {FolderNodes(g, g.drives[k].root) : k \in 1..Len(g.drives)}

\* _is_lazy of a node
NodeLazy(g, n) ==
    CASE n.kind = "drive" -> g.drives[n.id].lazy
      [] n.kind = "folder" -> g.folders[n.id].lazy
      [] OTHER -> g.files[n.id].lazy

AnyLazy(g) == \E n \in ArchiveNodes(g) : NodeLazy(g, n)

SetGraph(g) ==
    /\ drives' = g.drives
    /\ folders' = g.folders
    /\ files' = g.files

\* a facade call can start: the filesystem is open and the run has calls left
CanCall ==
    /\ fate = "open"
    /\ ops < MaxOps

\* the state of ser while no serializer is stepped through
NoSerializer ==
    [pc |-> "none", safe_mode |-> FALSE, out0 |-> EmptyStream, out |-> EmptyStream,
     h |-> EmptyStream, buffered |-> FALSE, image |-> <<>>]

\* the stream EssenceFSV2 is opened on: the bytes of SourceImage, at position pos
SourceStream(pos) ==
    [img |-> <<SourceImage>>, size |-> ImageSize(SourceImage), pos |-> pos,
     readable |-> TRUE, writable |-> TRUE]

Init ==
    /\ \E g \in {load_lazy(SourceImage)} :
           /\ drives = g.drives
           /\ folders = g.folders
           /\ files = g.files
    /\ lazy_file = TRUE
    /\ stream \in {SourceStream(0), SourceStream(ImageSize(SourceImage))}
    /\ dst = EmptyStream
    /\ handles = {}
    /\ fate = "open"
    /\ ops = 0
    /\ opn = NoOpener
    /\ toch = NoHeader
    /\ nat = NoNative
    /\ last_save = [out |-> "-", wrote_src |-> FALSE, lazy |-> FALSE]
    /\ ser = NoSerializer
    /\ vfy = NoVerifier
    /\ pool = NoPool
    /\ lk = NoLock
    /\ fmt = NoFormat
    /\ arc = NoArciv

\* fs.openbin(path, "w"): the caller keeps the handle it gets
OpenWrite(path) ==
    /\ CanCall
    /\ \E r \in {openbin(G, path, "w")} :
           /\ SetGraph(r.g)
           /\ handles' = IF r.err = "ok" THEN handles \cup {r.f} ELSE handles
    /\ ops' = ops + 1
    /\ UNCHANGED <<lazy_file, stream, dst, fate, last_save, ser, side>>

\* handle.write(data) on a handle opened for writing; a closed buffer raises
WriteHandle(f, data) ==
    /\ CanCall
    /\ f \in handles
    /\ IF files[f].closed THEN UNCHANGED files
       ELSE /\ files[f].pos + Len(data) <= MaxLen
            /\ files' = [files EXCEPT ![f].buf = BufWrite(@, files[f].pos, data),
                                      ![f].pos = @ + Len(data)]
    /\ ops' = ops + 1
    /\ UNCHANGED <<drives, folders, lazy_file, stream, dst, handles, fate, last_save, ser, side>>

\* handle.close(): the wrapper is closed, the buffer stays
CloseHandle(f) ==
    /\ CanCall
    /\ f \in handles
    /\ handles' = handles \ {f}
    /\ ops' = ops + 1
    /\ UNCHANGED <<drives, folders, files, lazy_file, stream, dst, fate, last_save, ser, side>>

\* fs.readbytes(path)
ReadFile(path) ==
    /\ CanCall
    /\ SetGraph(readbytes(G, path).g)
    /\ ops' = ops + 1
    /\ UNCHANGED <<lazy_file, stream, dst, handles, fate, last_save, ser, side>>

\* fs.makedir(path, recreate)
MakeDir(path, recreate) ==
    /\ CanCall
    /\ SetGraph(makedir(G, path, recreate).g)
    /\ ops' = ops + 1
    /\ UNCHANGED <<lazy_file, stream, dst, handles, fate, last_save, ser, side>>

\* fs.remove(path)
Remove(path) ==
    /\ CanCall
    /\ SetGraph(remove(G, path).g)
    /\ ops' = ops + 1
    /\ UNCHANGED <<lazy_file, stream, dst, handles, fate, last_save, ser, side>>

\* fs.removedir(path)
RemoveDir(path) ==
    /\ CanCall
    /\ SetGraph(removedir(G, path).g)
    /\ ops' = ops + 1
    /\ UNCHANGED <<lazy_file, stream, dst, handles, fate, last_save, ser, side>>

\* fs.setinfo(path, info)
SetInfo(path, info) ==
    /\ CanCall
    /\ SetGraph(setinfo(G, path, info).g)
    /\ ops' = ops + 1
    /\ UNCHANGED <<lazy_file, stream, dst, handles, fate, last_save, ser, side>>

\* node.recalculate_crc32() on the file a path names
Recalculate(path) ==
    /\ CanCall
    /\ SetGraph(recalculate_crc32(G, path).g)
    /\ ops' = ops + 1
    /\ UNCHANGED <<lazy_file, stream, dst, handles, fate, last_save, ser, side>>

Archive == [g |-> G, lazy_file |-> lazy_file, stream |-> stream]

\* fs.load_into_memory()
LoadIntoMemory ==
    /\ CanCall
    /\ \E a \in {EssenceUnlazy(Archive)} :
           /\ SetGraph(a.g)
           /\ lazy_file' = a.lazy_file
           /\ stream' = a.stream
    /\ ops' = ops + 1
    /\ UNCHANGED <<dst, handles, fate, last_save, ser, side>>

\* EssenceFSV2.save(out=None, safe_write): the archive is loaded into memory, then
\* serialized onto its own stream
save_in_place(a, safe_write) ==
    LET Written(u, r) ==
            [err |-> r.err, g |-> r.g, lazy_file |-> u.lazy_file, stream |-> r.out,
             wrote |-> r.wrote, lazy |-> r.wrote /\ AnyLazy(u.g)]
        Loaded(u) == Written(u, SerializerWrite(u.g, u.stream, safe_write))
    IN  Then({Loaded(u) : u \in {EssenceUnlazy(a)}})

\* EssenceFSV2.save(out, safe_write) with out the source stream itself: out is not
\* None, so nothing is loaded into memory
save_to_source(a, safe_write) ==
    LET Written(r) ==
            [err |-> r.err, g |-> r.g, lazy_file |-> a.lazy_file, stream |-> r.out,
             wrote |-> r.wrote, lazy |-> r.wrote /\ AnyLazy(a.g)]
    IN  Written(SerializerWrite(a.g, a.stream, safe_write))

\* fs.save(safe_write=safe_write)
SaveInPlace(safe_write) ==
    /\ CanCall
    /\ \E r \in {save_in_place(Archive, safe_write)} :
           /\ SetGraph(r.g)
           /\ lazy_file' = r.lazy_file
           /\ stream' = r.stream
           /\ fate' = IF r.lazy THEN "clobbered" ELSE fate
           /\ last_save' = [out |-> "none", wrote_src |-> r.wrote, lazy |-> r.lazy]
    /\ ops' = ops + 1
    /\ UNCHANGED <<dst, handles, ser, side>>

\* fs.save(fs._stream, safe_write) or any out that is the source stream
SaveToSource(safe_write) ==
    /\ CanCall
    /\ \E r \in {save_to_source(Archive, safe_write)} :
           /\ SetGraph(r.g)
           /\ lazy_file' = r.lazy_file
           /\ stream' = r.stream
           /\ fate' = IF r.lazy THEN "clobbered" ELSE fate
           /\ last_save' = [out |-> "src", wrote_src |-> r.wrote, lazy |-> r.lazy]
    /\ ops' = ops + 1
    /\ UNCHANGED <<dst, handles, ser, side>>

SaveToTarget_onsource(out, safe_write) ==
    /\ CanCall
    /\ \E r \in {SerializerWrite(G, stream, safe_write)} :
           /\ SetGraph(r.g)
           /\ stream' = r.out
    /\ last_save' = [out |-> "dst", wrote_src |-> FALSE, lazy |-> FALSE]
    /\ ops' = ops + 1
    /\ UNCHANGED <<lazy_file, dst, handles, fate, ser, side>>

\* fs.save(out, safe_write) with out a stream of its own
SaveToTarget(out, safe_write) ==
    /\ CanCall
    /\ \E r \in {SerializerWrite(G, out, safe_write)} :
           /\ SetGraph(r.g)
           /\ dst' = r.out
    /\ last_save' = [out |-> "dst", wrote_src |-> FALSE, lazy |-> FALSE]
    /\ ops' = ops + 1
    /\ UNCHANGED <<lazy_file, stream, handles, fate, ser, side>>

\* EssenceFSV2.__exit__: an editable archive saves itself in place in safe mode,
\* then the stream is closed
Exit ==
    /\ CanCall
    /\ IF editable
       THEN \E r \in {save_in_place(Archive, TRUE)} :
                /\ SetGraph(r.g)
                /\ lazy_file' = r.lazy_file
                /\ stream' = r.stream
                /\ last_save' = [out |-> "exit", wrote_src |-> r.wrote, lazy |-> r.lazy]
                /\ fate' = IF r.lazy THEN "clobbered" ELSE "closed"
       ELSE /\ fate' = "closed"
            /\ UNCHANGED <<drives, folders, files, lazy_file, stream, last_save>>
    /\ ops' = ops + 1
    /\ UNCHANGED <<dst, handles, ser, side>>

\* EssenceFSV2.close(): the stream is closed, nothing is written
Close ==
    /\ CanCall
    /\ fate' = "closed"
    /\ ops' = ops + 1
    /\ UNCHANGED <<drives, folders, files, lazy_file, stream, dst, handles, last_save, ser, side>>

Next ==
    \/ \E path \in FilePaths : OpenWrite(path)
    \/ \E f \in handles, data \in WriteData : WriteHandle(f, data)
    \/ \E f \in handles : CloseHandle(f)
    \/ \E path \in FilePaths : ReadFile(path)
    \/ \E path \in DirPaths, recreate \in BOOLEAN : MakeDir(path, recreate)
    \/ \E path \in FilePaths : Remove(path)
    \/ \E path \in DirPaths : RemoveDir(path)
    \/ \E path \in FilePaths \cup DirPaths, info \in InfoInputs : SetInfo(path, info)
    \/ \E path \in FilePaths : Recalculate(path)
    \/ LoadIntoMemory
    \/ \E safe_write \in BOOLEAN : SaveInPlace(safe_write)
    \/ \E safe_write \in BOOLEAN : SaveToSource(safe_write)
    \/ \E out \in Targets, safe_write \in BOOLEAN : SaveToTarget(out, safe_write)
    \/ Exit
    \/ Close

Spec == Init /\ [][Next]_vars

\* ------------------------------------------------------------ one serializer run
\* SgaFsV2Packer.serialize_sga(fs, out, safe_mode) pass by pass.  ser.out0 is the
\* output stream as it was handed in, ser.out the output stream now, ser.h the
\* working handle; while the working handle is the output stream itself
\* (ser.buffered = FALSE) the two are the same object and change together.

\* archives a serializer is run on: as opened, loaded into memory, with a new file
WriteArchives ==
    { [g |-> load_lazy(SourceImage), lazy_file |-> TRUE],
      [g |-> UnlazyDrives(load_lazy(SourceImage), 1), lazy_file |-> FALSE],
      [g |-> openbin(load_lazy(SourceImage), P_n, "w").g, lazy_file |-> TRUE] }

\* output streams: a fresh BytesIO, a write-only file, a read-only file, a BytesIO
\* that holds bytes already, a file positioned behind bytes it holds
WriteTargets ==
    Targets \cup
    { [EmptyStream EXCEPT !.writable = FALSE],
      [EmptyStream EXCEPT !.size = 1],
      [EmptyStream EXCEPT !.size = 1, !.pos = 1] }

InitWrite ==
    /\ \E a \in WriteArchives :
           /\ drives = a.g.drives
           /\ folders = a.g.folders
           /\ files = a.g.files
           /\ lazy_file = a.lazy_file
    /\ stream = SourceStream(0)
    /\ dst = EmptyStream
    /\ handles = {}
    /\ fate = "open"
    /\ ops = 0
    /\ opn = NoOpener
    /\ toch = NoHeader
    /\ nat = NoNative
    /\ last_save = [out |-> "-", wrote_src |-> FALSE, lazy |-> FALSE]
    /\ \E out \in WriteTargets, safe_mode \in BOOLEAN :
           ser = [NoSerializer EXCEPT !.pc = "new", !.safe_mode = safe_mode,
                                      !.out0 = out, !.out = out]
    /\ vfy = NoVerifier
    /\ pool = NoPool
    /\ lk = NoLock
    /\ fmt = NoFormat
    /\ arc = NoArciv

\* ser after the working handle went from ser.h to h
Worked(h, pc) ==
    [ser EXCEPT !.pc = pc, !.h = h, !.out = IF ser.buffered THEN @ ELSE h]

\* _SgaV2Serializer.__init__: the working handle is chosen
SerInit ==
    /\ ser.pc = "new"
    /\ ser' = [ser EXCEPT !.pc = "init",
                          !.buffered = UseBuffer(ser.out, ser.safe_mode),
                          !.h = IF UseBuffer(ser.out, ser.safe_mode) THEN EmptyStream
                                ELSE ser.out]
    /\ UNCHANGED <<drives, folders, files, lazy_file, stream, dst, handles, fate, ops,
                   last_save, side>>

\* write(), first pass: the position check, then magic, version and the blank
\* headers
SerSkeleton ==
    /\ ser.pc = "init"
    /\ ser' = IF ser.h.pos # 0 THEN [ser EXCEPT !.pc = "failed"]
              ELSE Worked(WriteSkeleton(ser.h), "skeleton")
    /\ UNCHANGED <<drives, folders, files, lazy_file, stream, dst, handles, fate, ops,
                   last_save, side>>

\* write(), the body: the archive is disassembled, the ToC blocks and the data
\* block are written
SerBody ==
    /\ ser.pc = "skeleton"
    /\ \E t \in {disassemble(G)} :
           /\ ser' = [Worked(WriteBody(ser.h, BuildImage(t)), "body")
                         EXCEPT !.image = <<BuildImage(t)>>]
           /\ SetGraph(MarkRead(G, t.read))
    /\ UNCHANGED <<lazy_file, stream, dst, handles, fate, ops, last_save, side>>

\* write(), second pass: the ToC header is filled in
SerPatchToc ==
    /\ ser.pc = "body"
    /\ ser' = Worked(PatchToc(ser.h), "toc")
    /\ UNCHANGED <<drives, folders, files, lazy_file, stream, dst, handles, fate, ops,
                   last_save, side>>

\* write(), third pass: the checksums are hashed and the meta block is filled in
SerPatchMeta ==
    /\ ser.pc = "toc"
    /\ ser' = Worked(PatchMeta(ser.h, ser.image[1]), "meta")
    /\ UNCHANGED <<drives, folders, files, lazy_file, stream, dst, handles, fate, ops,
                   last_save, side>>

\* write(), the end: nothing more when the working handle is the output stream,
\* else chunk_copy onto it, which a stream that cannot be written refuses
SerFinish ==
    /\ ser.pc = "meta"
    /\ ser' = IF ~ser.buffered THEN [ser EXCEPT !.pc = "done"]
              ELSE IF ~ser.out.writable THEN [ser EXCEPT !.pc = "failed"]
              ELSE [ser EXCEPT !.pc = "done", !.out = ChunkCopy(ser.h, ser.out)]
    /\ UNCHANGED <<drives, folders, files, lazy_file, stream, dst, handles, fate, ops,
                   last_save, side>>

\* an I/O or checksum error in the body pass or in a back-patch pass, after n
\* more bytes went to the working handle
SerFail(n) ==
    /\ ser.pc \in {"skeleton", "body", "toc"}
    /\ ser' = Worked([ser.h EXCEPT !.img = IF n = 0 THEN @ ELSE <<>>,
                                   !.size = Max(@, ser.h.pos + n),
                                   !.pos = @ + n], "failed")
    /\ UNCHANGED <<drives, folders, files, lazy_file, stream, dst, handles, fate, ops,
                   last_save, side>>

NextWrite ==
    \/ SerInit
    \/ SerSkeleton
    \/ SerBody
    \/ SerPatchToc
    \/ SerPatchMeta
    \/ SerFinish
    \/ \E n \in {0, 1} : SerFail(n)

SpecWrite == InitWrite /\ [][NextWrite]_vars

\* ------------------------------------------------------------ what a caller sees
\* what getinfo and a read show of a file node; the modified time at the whole
\* second the format stores
FileView(file) ==
    [ name         |-> file.name,
      storage_type |-> file.storage_type,
      modified     |-> TimePack(datetime2unix(file.modified)),
      crc32        |-> file.crc32,
      content      |-> IF ~file.lazy /\ file.closed THEN <<"closed">> ELSE FileRead(file) ]

\* a folder as scandir and get_child show it, followed down
RECURSIVE FolderView(_, _)
FolderView(g, d) ==
    LET Of(kids) ==
            [ name    |-> g.folders[d].name,
              files   |-> {FileView(g.files[c.id]) : c \in {k \in kids : k.kind = "file"}},
              folders |-> {FolderView(g, c.id) : c \in {k \in kids : k.kind = "folder"}} ]
    IN  Of({get_child(g, d, name) : name \in scandir(g, d)})

\* the drives of an archive with their trees
ArchiveView(g) ==
    { [alias |-> g.drives[k].alias, name |-> g.drives[k].name,
       root |-> FolderView(g, g.drives[k].root)] : k \in 1..Len(g.drives) }

\* the archive parsed back from what the serializer writes for g
Parsed(g) == load_lazy(BuildImage(disassemble(g)))

\* the folders _getnode walks through on the way to a path, the root included
FoldersOnPath(g, path) ==
    LET Walked(k, parts) ==
            {w.node.id :
                w \in {v \in {WalkParts(g, [found |-> TRUE, kind |-> "folder",
                                            id |-> g.drives[k].root],
                                        SubSeq(parts, 1, i)) : i \in 0..Len(parts)} :
                          v.err = "ok" /\ v.node.found /\ v.node.kind = "folder"}}
        Of(p, k) == IF k = 0 THEN {} ELSE Walked(k, split_parts(p.path, FALSE))
        At(p) == Of(p, DriveIndex(g, p.alias))
    IN  At(parse(path))

\* a facade call that adds or removes something at a path
MutationAt(path) ==
    \/ OpenWrite(path)
    \/ \E recreate \in BOOLEAN : MakeDir(path, recreate)
    \/ Remove(path)
    \/ RemoveDir(path)

\* ------------------------------------------------------------ claims
\* C1: serializing an archive and parsing the result gives an archive with the
\* same drives (alias, name), the same folder tree and the same files (name,
\* storage type, modified time, CRC32, decompressed content).
C1_RoundTrip == fate # "clobbered" => ArchiveView(Parsed(G)) = ArchiveView(G)

\* C2: a file, folder or drive node that is Mutable is Mutable after every step.
C2_NoWayBack ==
    [][/\ \A k \in 1..Len(drives) : ~drives[k].lazy => ~drives'[k].lazy
       /\ \A d \in 1..Len(folders) : ~folders[d].lazy => ~folders'[d].lazy
       /\ \A f \in 1..Len(files) : ~files[f].lazy => ~files'[f].lazy]_vars

\* a drive, a folder and a file are Mutable and calls followed the first promotion
C2_Witness ==
    /\ ops >= 2
    /\ \E k \in 1..Len(drives) : ~drives[k].lazy
    /\ \E d \in 1..Len(folders) : ~folders[d].lazy
    /\ \E f \in 1..Len(files) : ~files[f].lazy

\* C3: when a save with no explicit target writes the backing stream, no node of
\* the archive is Lazy at the first byte.
C3_InPlaceSaveAllMutable ==
    (last_save.out = "none" /\ last_save.wrote_src) => ~last_save.lazy

\* C4: the source stream is never written while the archive holds a Lazy node, be
\* it by an in-place save, a save onto the source stream or the save on exit.
C4_SourceNotWrittenUnderLazy == last_save.wrote_src => ~last_save.lazy

\* C5: in safe mode, asked for or forced by an output stream that is not both
\* readable and writable, the output stream is as it was handed in until the
\* back-patch passes are through, and stays so when a pass fails.
C5_SafeModeHoldsBack ==
    (/\ ser.pc \in {"init", "skeleton", "body", "toc", "meta", "failed"}
     /\ ser.safe_mode \/ ~(ser.out0.writable /\ ser.out0.readable))
        => ser.out = ser.out0

\* a safe-mode run failed after bytes went to its buffer
C5_Witness ==
    /\ ser.pc = "failed"
    /\ ser.safe_mode
    /\ ser.out0.writable
    /\ ser.h.size >= TOC_BLOCK_POS

\* C6: a mutation beneath a lazy folder (a child added, a file it holds written,
\* a child removed) takes effect and leaves the folder Mutable.
C6_MutationPromotesFolder ==
    \A path \in FilePaths : \A e \in {try_enter_parent(G, path)} :
        (e.err = "ok" /\ folders[e.parent].lazy) =>
            /\ \A o \in {openbin(G, path, "w")} :
                   o.err = "ok" /\ ~o.g.folders[e.parent].lazy
            /\ get_child(G, e.parent, e.child).found =>
                   \A r \in {remove(G, path)} :
                       /\ r.err = "ok"
                       /\ ~r.g.folders[e.parent].lazy
                       /\ ~get_child(r.g, e.parent, e.child).found

\* C7: a call that mutates at a path leaves every lazy folder that is not on the
\* way to the path Lazy, and the lazy files and folders it holds Lazy.
C7_SiblingsStayLazy ==
    [][\A path \in FilePaths \cup DirPaths :
           MutationAt(path) =>
               \A d \in 1..Len(folders) :
                   (folders[d].lazy /\ d \notin FoldersOnPath(G, path)) =>
                       /\ folders'[d].lazy
                       /\ \A i \in 1..Len(folders[d].files) :
                              files[folders[d].files[i]].lazy
                                  => files'[folders[d].files[i]].lazy
                       /\ \A i \in 1..Len(folders[d].folders) :
                              folders[folders[d].folders[i]].lazy
                                  => folders'[folders[d].folders[i]].lazy]_vars

\* the first call added a file to folder a: a is Mutable, its sibling b and the
\* file of b are Lazy
C7_Witness ==
    /\ ops = 1
    /\ \E d \in 1..Len(folders) : ~folders[d].lazy /\ Len(folders[d].files) = 2
    /\ \E d \in 1..Len(folders) :
           /\ folders[d].lazy
           /\ Len(folders[d].files) = 1
           /\ files[folders[d].files[1]].lazy

\* C8: when load_into_memory promotes a lazy file, the content read from the node
\* is the decompressed payload the lazy node gave, and name, storage type,
\* modified time and CRC32 are what they were.
C8_PromotionTransparent ==
    [][LoadIntoMemory =>
           \A f \in 1..Len(files) :
               (files[f].lazy /\ ~files'[f].lazy) =>
                   /\ FileRead(files'[f]) = FileRead(files[f])
                   /\ files'[f].name = files[f].name
                   /\ files'[f].storage_type = files[f].storage_type
                   /\ files'[f].modified = files[f].modified
                   /\ files'[f].crc32 = files[f].crc32]_vars

\* the first call was load_into_memory: every file of the archive is Mutable
C8_Witness ==
    /\ ops = 1
    /\ ~lazy_file
    /\ last_save.out = "-"
    /\ \A f \in 1..Len(files) : ~files[f].lazy

\* C9 as stated: a file node that is Lazy refuses to be opened for writing.
C9_LazyNodeRefusesWrite ==
    \A f \in 1..Len(files) : files[f].lazy => FileOpenbin(G, f, "w").err # "ok"

\* C9, amended: the lazy backing of a file node refuses a writing mode, and a Lazy
\* file node opened for writing promotes itself first: the open succeeds, the
\* node is Mutable and holds the decompressed payload, nothing written to it.
C9_NodePromotesOnWrite ==
    \A f \in 1..Len(files) :
        files[f].lazy =>
            /\ LazyOpenbin(files[f], TRUE) = "RelicToolError"
            /\ LazyOpenbin(files[f], FALSE) = "ok"
            /\ \A o \in {FileOpenbin(G, f, "w")} :
                   /\ o.err = "ok"
                   /\ ~o.g.files[f].lazy
                   /\ o.g.files[f].buf = ReadLazy(files[f])

\* the first call opened a file of the archive, Lazy until then, for writing:
\* the caller holds the handle and the node is Mutable
C9_Witness ==
    /\ ops = 1
    /\ Len(files) = Len(SourceImage.files)
    /\ \E f \in handles : ~files[f].lazy

\* C10: a file written through a handle that was opened for writing reports, at
\* its next read, the CRC32 of the content it then holds.
C10_CrcFollowsWrite ==
    \A path \in FilePaths : \A r \in {getnode(G, path, TRUE)} :
        (/\ r.err = "ok"
         /\ r.node.kind = "file"
         /\ r.node.id \in handles
         /\ ~files[r.node.id].closed) =>
            \A o \in {readbytes(G, path)} :
                o.err = "ok" => reported_crc32(o.g, path) = crc32_hash(o.data)

\* the bytes a stream holds, whatever its position
Bytes(s) == [img |-> s.img, size |-> s.size]

RECURSIVE PathsView(_, _)
PathsView(g, d) ==
    LET Of(kids) ==
            [ name    |-> g.folders[d].name,
              files   |-> {[name |-> g.files[c.id].name, crc32 |-> g.files[c.id].crc32,
                            modified |-> g.files[c.id].modified] :
                              c \in {k \in kids : k.kind = "file"}},
              folders |-> {PathsView(g, c.id) : c \in {k \in kids : k.kind = "folder"}} ]
    IN  Of({get_child(g, d, name) : name \in scandir(g, d)})

SemanticView(g) ==
    {[alias |-> g.drives[k].alias, root |-> PathsView(g, g.drives[k].root)] :
        k \in 1..Len(g.drives)}

\* C13: creating a file that was not there and removing it again succeeds and
\* leaves the listed and resolving paths, and every file's CRC32 and modified time,
\* as they were.
C13_AddThenRemove ==
    \A path \in FilePaths : \A e \in {try_enter_parent(G, path)} :
        (e.err = "ok" /\ ~get_child(G, e.parent, e.child).found) =>
            \A o \in {openbin(G, path, "w")} :
                o.err = "ok" =>
                    \A r \in {remove(o.g, path)} :
                        r.err = "ok" /\ SemanticView(r.g) = SemanticView(G)

\* ------------------------------------------------------------ fsspec filesystem
\* The bytes of an archive as runs: the 180 bytes up to the ToC, the ToC, and for
\* every data entry its 264-byte header followed by the bytes of its payload.
RECURSIVE DataBytes(_)
DataBytes(data) ==
    IF Len(data) = 0 THEN <<>>
    ELSE <<[run |-> "data_header", name |-> Head(data).name]>> \o Head(data).payload
         \o DataBytes(Tail(data))

ArchiveBytes(img) == <<[run |-> "meta"], [run |-> "toc"]>> \o DataBytes(img.data)

\* _OmniHandle over the archive (path, descriptor or mmap) or over raw bytes;
\* io.BytesIO is the plain stream _ReadOnlyFile swaps in
OmniArchive(img) == [kind |-> "omni", img |-> <<img>>, raw |-> <<>>]

OmniRaw(raw) == [kind |-> "omni", img |-> <<>>, raw |-> raw]

BytesIO(raw) == [kind |-> "bytesio", img |-> <<>>, raw |-> raw]

\* _read_omni(handle, entry): the window [data_offset, data_offset + compressed_size)
\* of the handle, inflated unless the entry is STORE
read_omni(handle, entry) ==
    LET Of(raw) == IF entry.storage_type # STORE THEN zlib_decompress(raw) ELSE raw
    IN  Of(SubSeq(DataEntry(handle.img[1].data, entry.data_offset).payload,
                  1, entry.compressed_size))

\* SgaV2._mkfile(path, True, entry) as _parse calls it: a _File with the entry as
\* _lazy, b"" as _mem and the default storage type
MkFile(img, i) ==
    [ name         |-> get_name(img.names, img.files[i].name_offset),
      lazy         |-> TRUE,
      entry        |-> [data_offset     |-> img.files[i].data_offset,
                        compressed_size |-> img.files[i].compressed_size,
                        storage_type    |-> GetStorageType(img.files[i].flags)],
      has_mem      |-> TRUE,
      mem          |-> <<>>,
      storage_type |-> STORE ]

\* _ReadOnlyFile.__init__(fs_file, handle): [err, file, handle]
ReadOnlyFile(fs_file, handle) ==
    IF fs_file.lazy
    THEN IF fs_file.entry.storage_type # STORE
         THEN LET Of(mem) == [err |-> "ok",
                              file |-> [fs_file EXCEPT !.mem = mem, !.has_mem = TRUE,
                                                       !.lazy = FALSE],
                              handle |-> BytesIO(mem)]
              IN  Of(read_omni(handle, fs_file.entry))
         ELSE [err |-> "ok", file |-> [fs_file EXCEPT !.lazy = FALSE], handle |-> handle]
    ELSE IF fs_file.has_mem
         THEN [err |-> "ok", file |-> fs_file, handle |-> OmniRaw(fs_file.mem)]
         ELSE [err |-> "NotImplementedError", file |-> fs_file, handle |-> handle]

\* _ReadOnlyFile.read(): self._handle[:], which _OmniHandle.__getitem__ answers with
\* all the bytes behind the handle and io.BytesIO does not support; [err, data]
ReadOnlyRead(handle) ==
    IF handle.kind = "bytesio" THEN [err |-> "TypeError", data |-> <<>>]
    ELSE IF Len(handle.img) > 0 THEN [err |-> "ok", data |-> ArchiveBytes(handle.img[1])]
    ELSE [err |-> "ok", data |-> handle.raw]

\* open(path, "rb") and read() on the fsspec filesystem: [err, file, data]
FsSpecRead(fs_file, handle) ==
    LET Of(o) ==
            IF o.err # "ok" THEN [err |-> o.err, file |-> o.file, data |-> <<>>]
            ELSE LET Got(r) == [err |-> r.err, file |-> o.file, data |-> r.data]
                 IN  Got(ReadOnlyRead(o.handle))
    IN  Of(ReadOnlyFile(fs_file, handle))

\* the decompressed payload of file record i of an archive, from its bytes
PayloadOf(img, i) ==
    LET Of(raw) == IF GetStorageType(img.files[i].flags) # STORE THEN zlib_decompress(raw)
                   ELSE raw
    IN  Of(SubSeq(DataEntry(img.data, img.files[i].data_offset).payload, 1,
                  img.files[i].compressed_size))

\* C12: every read-open of a file, the first and a second one with no write between, returns the file's decompressed payload, for STORE and compressed files, through the fsspec filesystem as through EssenceFSV2.
C12_ReadReturnsPayload ==
    /\ \A path \in FilePaths : \A r1 \in {readbytes(G, path)} :
           r1.err = "ok" =>
               \A r2 \in {readbytes(r1.g, path)} : r2.err = "ok" /\ r2.data = r1.data
    /\ \A s \in {stream, dst} : \A k \in 1..Len(s.img) : \A img \in {s.img[k]} :
           \A i \in 1..Len(img.files) :
               \A r1 \in {FsSpecRead(MkFile(img, i), OmniArchive(img))} :
                   /\ r1.err = "ok"
                   /\ r1.data = PayloadOf(img, i)
                   /\ \A r2 \in {FsSpecRead(r1.file, OmniArchive(img))} :
                          r2.err = "ok" /\ r2.data = PayloadOf(img, i)

\* the stored digests of the archive at the start of stream s are those of its bytes
DigestsMatch(s) ==
    \A k \in 1..Len(s.img) : \A img \in {s.img[k]} :
        /\ img.toc_md5 = md5_hash(TOC_MD5_EIGEN, TocBytes(img))
        /\ img.file_md5 = md5_hash(FILE_MD5_EIGEN, BytesToEnd(img, s.size))

\* C14: in every archive a serializer produces, saved in place or to a stream of its own, the stored toc_md5 is the digest of bytes [180, 180 + toc_size) and the stored file_md5 is the digest of bytes [180, EOF) of the finished output.
C14_DigestsMatchOutput ==
    \A safe_write \in BOOLEAN :
        /\ \A r \in {save_in_place(Archive, safe_write)} :
               (r.err = "ok" /\ Len(r.stream.img) = 1) => DigestsMatch(r.stream)
        /\ \A out \in Targets : \A r \in {SerializerWrite(G, out, safe_write)} :
               (r.err = "ok" /\ Len(r.out.img) = 1) => DigestsMatch(r.out)

\* ------------------------------------------------------------ fsspec tree
\* A _Directory is [name, drive_name, absolute_path, sub_folders, files] and a _File
\* [name, absolute_path, modified, crc32, storage_type, mem]; sub_folders and files
\* are the dicts in insertion order, absolute_path the steps from the root.

\* a folder record leads to a file, in itself or further down
RECURSIVE HoldsFiles(_, _)
HoldsFiles(img, i) ==
    \/ img.folders[i].last_file > img.folders[i].first_file
    \/ \E s \in (img.folders[i].first_folder + 1)..img.folders[i].last_folder :
           s <= Len(img.folders) /\ HoldsFiles(img, s)

\* _read_metadata on an archive whose data headers are laid out name, modified,
\* crc32, then SgaV2._unlazy: the _File of file record i
ParsedFile(img, i, path) ==
    LET Of(hdr, name) ==
            [ name          |-> name,
              absolute_path |-> Append(path, name),
              modified      |-> unix2datetime(hdr.modified),
              crc32         |-> hdr.crc32,
              storage_type  |-> GetStorageType(img.files[i].flags),
              mem           |-> PayloadOf(img, i) ]
    IN  Of(LazyDataHeader(img, img.files[i].data_offset),
           get_name(img.names, img.files[i].name_offset))

\* the directories _mkfile(path, create_parents=True) leaves for folder record i
\* once every entry of NativeParserV2._build_file_paths went in: a directory exists
\* only if a file lies in it or below it
RECURSIVE ParsedDirectory(_, _, _, _)
ParsedDirectory(img, i, name, path) ==
    LET info == img.folders[i]
        Sub(s) == ParsedDirectory(img, s, basename(get_name(img.names,
                                                              img.folders[s].name_offset)),
                                  Append(path, basename(get_name(img.names,
                                                              img.folders[s].name_offset))))
        Kept(subs) == [k \in 1..Len(subs) |-> Sub(subs[k])]
    IN  [ name          |-> name,
          drive_name    |-> <<>>,
          absolute_path |-> path,
          sub_folders   |-> Kept(SelectSeq(Slice(info.first_folder, info.last_folder),
                                           LAMBDA s : HoldsFiles(img, s))),
          files         |-> [k \in 1..(IF info.last_file > info.first_file
                                       THEN info.last_file - info.first_file ELSE 0) |->
                                ParsedFile(img, info.first_file + k, path)] ]

\* SgaV2._parse and _unlazy: one root directory per drive, named by its alias
FsSpecParse(img) ==
    [k \in 1..Len(img.drives) |->
        [ParsedDirectory(img, img.drives[k].root_folder + 1, img.drives[k].alias,
                         <<img.drives[k].alias>>)
            EXCEPT !.drive_name = img.drives[k].name]]

\* ------------------------------------------------------------ native writer
\* _SgaWriter: names is the name stream with the _name_tables key of every string,
\* folder_stream / file_stream / drive_stream the record streams, folder_count /
\* file_count / drive_count the counters, data_stream the payloads at their offset,
\* out_meta what _add_metadata wrote to _out and where, out_pos the position of
\* _out, log the folder records written in order.

\* FILE_METADATA = struct.Struct("<256sII")
FILE_METADATA_SIZE == 264

\* TOC_PTR = struct.Struct("<IH"), four of them
TOC_PTRS_SIZE == 24

\* _SgaWriter.__init__, then the first stage of _write: magic, version, blank header
\* and blank pointers leave _out at 180 + 4 * TOC_PTR.size
NewSgaWriter ==
    [ names |-> <<>>, drive_stream |-> <<>>, drive_count |-> 0, folder_stream |-> <<>>,
      folder_count |-> 0, file_stream |-> <<>>, file_count |-> 0, data_stream |-> <<>>,
      data_len |-> 0, out_meta |-> <<>>, out_pos |-> TOC_HEADER_POS + TOC_PTRS_SIZE,
      log |-> <<>> ]

\* _SgaWriter._add_name: the offset of the string in the table of its drive, the
\* string appended to the shared stream when that table does not hold it
add_name(w, drive, name) ==
    IF \E i \in 1..Len(w.names) : w.names[i].drive = drive /\ w.names[i].str = name
    THEN w
    ELSE [w EXCEPT !.names = Append(@, [off |-> NamesSize(w.names), str |-> name,
                                        drive |-> drive])]

name_pos(w, drive, name) ==
    (CHOOSE e \in {w.names[i] : i \in 1..Len(w.names)} :
        e.drive = drive /\ e.str = name).off

\* _SgaWriter._add_metadata: FILE_METADATA.pack(name, crc32, modified) goes to _out
add_metadata(w, name, modified, crc) ==
    [w EXCEPT !.out_meta = Append(@, [at |-> w.out_pos, name |-> name, word1 |-> crc,
                                      word2 |-> TimePack(datetime2unix(modified))]),
              !.out_pos = @ + FILE_METADATA_SIZE]

\* _SgaWriter._add_data: the header, then the payload at the end of _data_stream,
\* whose position is the data offset handed back
add_data(w, full_path, raw, storage, modified) ==
    LET Of(w1, buffer) ==
            [w1 EXCEPT !.data_stream = Append(@, [off |-> w1.data_len, payload |-> buffer]),
                       !.data_len = @ + Len(buffer)]
    IN  Of(add_metadata(w, full_path, modified, crc32_hash(raw)),
           IF storage \in {BUFFER_COMPRESS, STREAM_COMPRESS} THEN zlib_compress(raw)
           ELSE raw)

\* _SgaWriter._add_toc_file: DOW_FILE_ENTRY.pack(name_offset, int(storage_type), ...)
add_toc_file(w, name_offset, storage_type, data_offset, compressed_size, decompressed_size) ==
    [w EXCEPT !.file_count = @ + 1,
              !.file_stream = Append(@, [ name_offset       |-> name_offset,
                                          flags             |-> storage_type,
                                          data_offset       |-> data_offset,
                                          compressed_size   |-> compressed_size,
                                          decompressed_size |-> decompressed_size ])]

\* _SgaWriter._add_toc_folder with the folder stream at record pos (0-based)
add_toc_folder(w, pos, record, increment_count, blank) ==
    [w EXCEPT !.folder_count = IF increment_count THEN @ + 1 ELSE @,
              !.folder_stream = IF pos < Len(@) THEN [@ EXCEPT ![pos + 1] = record]
                                ELSE Append(@, record),
              !.log = Append(@, [at |-> pos, blank |-> blank, counted |-> increment_count,
                                 folders |-> w.folder_count, files |-> w.file_count])]

\* _SgaWriter._add_toc_drive
add_toc_drive(w, name, alias, first_folder, last_folder, first_file, last_file, root_folder) ==
    [w EXCEPT !.drive_count = @ + 1,
              !.drive_stream = Append(@, [ alias |-> alias, name |-> name,
                                           first_folder |-> first_folder,
                                           last_folder  |-> last_folder,
                                           first_file   |-> first_file,
                                           last_file    |-> last_file,
                                           root_folder  |-> root_folder ])]

\* "/".join(parts)
RECURSIVE JoinSlash(_)
JoinSlash(parts) ==
    IF Len(parts) = 0 THEN <<>>
    ELSE IF Len(parts) = 1 THEN parts[1]
    ELSE parts[1] \o <<INV_SEP>> \o JoinSlash(Tail(parts))

\* FsSpecWriter._get_full_path: the absolute path without the step of the drive
get_full_path(drive, node) ==
    IF Len(node.absolute_path) > 0 /\ node.absolute_path[1] = drive.name
    THEN JoinSlash(Tail(node.absolute_path))
    ELSE JoinSlash(node.absolute_path)

\* sorted(cur_folder.sub_folders.values(), key=lambda x: x.name)
RECURSIVE SortedDirectories(_)
SortedDirectories(dirs) ==
    IF Len(dirs) = 0 THEN <<>>
    ELSE LET Least(m) ==
                 <<dirs[m]>> \o SortedDirectories([k \in 1..(Len(dirs) - 1) |->
                                                     IF k < m THEN dirs[k] ELSE dirs[k + 1]])
         IN  Least(CHOOSE m \in 1..Len(dirs) :
                       \A k \in 1..Len(dirs) :
                           k = m \/ NameLess(dirs[m].name, dirs[k].name)
                           \/ (dirs[k].name = dirs[m].name /\ m < k))

\* FsSpecWriter._add_fs_names: the root's empty string, then level by level the full
\* paths of the sorted sub-folders
RECURSIVE AddNamesOf(_, _, _)
AddNamesOf(w, drive, dirs) ==
    IF Len(dirs) = 0 THEN w
    ELSE Then({AddNamesOf(w1, drive, Tail(dirs)) :
                   w1 \in {add_name(w, drive.name, get_full_path(drive, Head(dirs)))}})

RECURSIVE add_fs_names(_, _, _, _)
RECURSIVE AddNamesBelow(_, _, _)
AddNamesBelow(w, drive, dirs) ==
    IF Len(dirs) = 0 THEN w
    ELSE Then({AddNamesBelow(w1, drive, Tail(dirs)) :
                   w1 \in {add_fs_names(w, drive, Head(dirs), FALSE)}})

add_fs_names(w, drive, cur_folder, is_root) ==
    LET Sorted(w1, dirs) == AddNamesBelow(AddNamesOf(w1, drive, dirs), drive, dirs)
    IN  Sorted(IF is_root THEN add_name(w, drive.name, <<>>) ELSE w,
               SortedDirectories(cur_folder.sub_folders))

\* FsSpecWriter._add_fs_file: the name, the data, the file record
add_fs_file(w, drive, file) ==
    LET Stored(w1, w2) ==
            add_toc_file(w2, name_pos(w1, drive.name, file.name), file.storage_type,
                         w1.data_len, w2.data_len - w1.data_len, Len(file.mem))
        Named(w1) == Stored(w1, add_data(w1, get_full_path(drive, file), file.mem,
                                         file.storage_type, file.modified))
    IN  Named(add_name(w, drive.name, file.name))

RECURSIVE AddFiles(_, _, _)
AddFiles(w, drive, fs) ==
    IF Len(fs) = 0 THEN w
    ELSE Then({AddFiles(w1, drive, Tail(fs)) : w1 \in {add_fs_file(w, drive, Head(fs))}})

\* the first loop of _add_fs_folder: a blank record, counted, per sub-folder
RECURSIVE AddBlanks(_, _)
AddBlanks(w, n) ==
    IF n = 0 THEN w
    ELSE Then({AddBlanks(w1, n - 1) :
                   w1 \in {add_toc_folder(w, Len(w.folder_stream), BlankFolder, TRUE, TRUE)}})

\* FsSpecWriter._add_fs_folder with the placeholder of the folder at record
\* writeback_ptr: blanks for the sub-folders, the sub-folders, the files, then the
\* record of the folder written back over its placeholder
RECURSIVE add_fs_folder(_, _, _, _)
RECURSIVE AddSubFolders(_, _, _, _)
AddSubFolders(w, drive, dirs, first_ptr) ==
    IF Len(dirs) = 0 THEN w
    ELSE Then({AddSubFolders(w1, drive, Tail(dirs), first_ptr + 1) :
                   w1 \in {add_fs_folder(w, drive, Head(dirs), first_ptr)}})

add_fs_folder(w, drive, folder, writeback_ptr) ==
    LET Filed(w1, w3, w4) ==
            add_toc_folder(w4, writeback_ptr,
                           [ name_offset  |-> name_pos(w1, drive.name,
                                                       get_full_path(drive, folder)),
                             first_folder |-> w1.folder_count,
                             last_folder  |-> w1.folder_count + Len(folder.sub_folders),
                             first_file   |-> w3.file_count,
                             last_file    |-> w4.file_count ],
                           FALSE, FALSE)
        Walked(w1, w3) == Filed(w1, w3, AddFiles(w3, drive, folder.files))
        Named(w1) ==
            Walked(w1, AddSubFolders(AddBlanks(w1, Len(folder.sub_folders)), drive,
                                     folder.sub_folders, Len(w1.folder_stream)))
    IN  Named(add_name(w, drive.name, get_full_path(drive, folder)))

\* FsSpecWriter._add_fs_drive
add_fs_drive(w, drive) ==
    LET Walked(w1, w3) ==
            add_toc_drive(w3, drive.drive_name, drive.name, w1.folder_count,
                          w3.folder_count, w1.file_count, w3.file_count, w1.folder_count)
        Named(w1) ==
            Walked(w1, add_fs_folder(add_toc_folder(w1, Len(w1.folder_stream), BlankFolder,
                                                    TRUE, TRUE),
                                     drive, drive, Len(w1.folder_stream)))
    IN  Named(add_fs_names(w, drive, drive, TRUE))

\* FsSpecWriter._add_toc: every drive of the filesystem in turn
RECURSIVE AddDrives(_, _)
AddDrives(w, ds) ==
    IF Len(ds) = 0 THEN w
    ELSE Then({AddDrives(w1, Tail(ds)) : w1 \in {add_fs_drive(w, Head(ds))}})

add_toc(sga) == AddDrives(NewSgaWriter, sga)

\* sum(len(t) for t in self._name_tables): iterating the dict yields its keys, the
\* drive names, so the lengths of those strings are added up
RECURSIVE SumOfKeyLengths(_)
SumOfKeyLengths(keys) ==
    IF keys = {} THEN 0
    ELSE LET Of(k) == Len(k) + SumOfKeyLengths(keys \ {k}) IN Of(CHOOSE k \in keys : TRUE)

\* _SgaWriter._create_ptrs: offsets from the ToC header on, counts from the counters
create_ptrs(w) ==
    LET drive_offset  == TOC_PTRS_SIZE
        folder_offset == drive_offset + DRIVE_SIZE * Len(w.drive_stream)
        file_offset   == folder_offset + FOLDER_SIZE * Len(w.folder_stream)
        name_offset   == file_offset + FILE_SIZE_DOW * Len(w.file_stream)
    IN  [ drive  |-> [offset |-> drive_offset, count |-> w.drive_count],
          folder |-> [offset |-> folder_offset, count |-> w.folder_count],
          file   |-> [offset |-> file_offset, count |-> w.file_count],
          name   |-> [offset |-> name_offset,
                      count  |-> SumOfKeyLengths({w.names[i].drive :
                                                     i \in 1..Len(w.names)})] ]

\* _SgaWriter._write_toc: the four streams go to _out from 180 + 4 * TOC_PTR.size on;
\* [toc_end, toc_size], toc_end where _out stands afterwards
writer_write_toc(w) ==
    LET Of(toc_end) == [toc_end |-> toc_end, toc_size |-> toc_end - TOC_HEADER_POS]
    IN  Of(TOC_HEADER_POS + TOC_PTRS_SIZE + DRIVE_SIZE * Len(w.drive_stream)
           + FOLDER_SIZE * Len(w.folder_stream) + FILE_SIZE_DOW * Len(w.file_stream)
           + NamesSize(w.names))

\* _SgaWriter._write_data(toc_size): the position the data stream is written at
writer_write_data(toc_size) == TOC_HEADER_POS + toc_size

\* _SgaWriter._calculate_header: [toc_size, data_offset] of ArchiveMeta
calculate_header(toc_size) ==
    [toc_size |-> toc_size, data_offset |-> TOC_HEADER_POS + toc_size]

\* _SgaWriter._write on a filesystem whose files are in memory: the bytes of _out.
\* data holds the payloads at their offset from data_at on, headers the blocks
\* _add_metadata wrote that no later write reached, toc_end where the ToC ends.
SgaWriterWrite(sga) ==
    LET Image(w, toc, ptrs, data_at, size) ==
            [ toc_size |-> calculate_header(toc.toc_size).toc_size,
              data_pos |-> calculate_header(toc.toc_size).data_offset,
              ptrs     |-> ptrs,
              drives   |-> w.drive_stream,
              folders  |-> w.folder_stream,
              files    |-> w.file_stream,
              names    |-> w.names,
              data     |-> w.data_stream,
              data_at  |-> data_at,
              toc_end  |-> toc.toc_end,
              headers  |-> SelectSeq(w.out_meta, LAMBDA h : h.at >= data_at + w.data_len),
              size     |-> size,
              log      |-> w.log,
              toc_md5  |-> md5_hash(TOC_MD5_EIGEN,
                                    [ptrs |-> ptrs, drives |-> w.drive_stream,
                                     folders |-> w.folder_stream, files |-> w.file_stream,
                                     names |-> w.names]),
              file_md5 |-> md5_hash(FILE_MD5_EIGEN,
                                    [toc  |-> [ptrs |-> ptrs, drives |-> w.drive_stream,
                                               folders |-> w.folder_stream,
                                               files |-> w.file_stream, names |-> w.names],
                                     data |-> w.data_stream,
                                     tail |-> size - (data_at + w.data_len)]) ]
        Placed(w, toc, data_at) ==
            Image(w, toc, create_ptrs(w), data_at,
                  Max(Max(w.out_pos, toc.toc_end), data_at + w.data_len))
        Tabled(w, toc) == Placed(w, toc, writer_write_data(toc.toc_size))
        Added(w) == Tabled(w, writer_write_toc(w))
    IN  Added(add_toc(sga))

\* the 264 bytes in front of position pos of a written archive as _read_metadata
\* unpacks them: name, unix_timestamp, crc32_hash; NoMetadata stands for bytes that
\* no header was written to
NoMetadata == [name |-> <<"?">>, modified |-> 0 - 1, crc32 |-> 0 - 1]

read_metadata(image, pos) ==
    IF \E i \in 1..Len(image.headers) : image.headers[i].at + FILE_METADATA_SIZE = pos
    THEN LET Of(h) == [name |-> h.name, modified |-> h.word1, crc32 |-> h.word2]
         IN  Of(CHOOSE h \in {image.headers[i] : i \in 1..Len(image.headers)} :
                    h.at + FILE_METADATA_SIZE = pos)
    ELSE NoMetadata

\* the archives the streams of the filesystem hold from offset 0 on
StoredImages == UNION {{s.img[k] : k \in 1..Len(s.img)} : s \in {stream, dst}}

\* where the four ToC blocks of an archive end and its data block starts
BlockEnd(img) ==
    TOC_BLOCK_POS + DRIVE_SIZE * Len(img.drives) + FOLDER_SIZE * Len(img.folders)
    + FILE_SIZE_DOW * Len(img.files) + NamesSize(img.names)

\* C15: in every archive a serializer produces, the header's data_offset is the position at which the data block starts and toc_size is data_offset - 180; for the archives EssenceFSV2 saves and for what the native writer makes of them.
C15_DataOffsetAtBlockStart ==
    \A img \in StoredImages :
        /\ img.data_pos = BlockEnd(img)
        /\ img.toc_size = img.data_pos - TOC_HEADER_POS
        /\ \A n \in {SgaWriterWrite(FsSpecParse(img))} :
               /\ n.data_pos = n.data_at
               /\ n.data_at = n.toc_end
               /\ n.toc_end = BlockEnd(n)
               /\ n.toc_size = n.data_pos - TOC_HEADER_POS

C15_Witness ==
    /\ Len(dst.img) = 1
    /\ last_save.out = "dst"
    /\ Len(dst.img[1].files) > Len(SourceImage.files)
    /\ dst.img[1].data_pos > SourceImage.data_pos
    /\ \E n \in {SgaWriterWrite(FsSpecParse(dst.img[1]))} :
           n.data_pos > SourceImage.data_pos /\ Len(n.data) = Len(dst.img[1].files)

\* the ToC header of an archive points at its four blocks, offsets counted from
\* 180, and counts their records; the name entry counts the distinct strings
PtrsMatch(img) ==
    /\ img.ptrs.drive.offset = TOC_BLOCK_POS - TOC_HEADER_POS
    /\ img.ptrs.folder.offset = img.ptrs.drive.offset + DRIVE_SIZE * Len(img.drives)
    /\ img.ptrs.file.offset = img.ptrs.folder.offset + FOLDER_SIZE * Len(img.folders)
    /\ img.ptrs.name.offset = img.ptrs.file.offset + FILE_SIZE_DOW * Len(img.files)
    /\ img.ptrs.drive.count = Len(img.drives)
    /\ img.ptrs.folder.count = Len(img.folders)
    /\ img.ptrs.file.count = Len(img.files)
    /\ img.ptrs.name.count = Cardinality({img.names[i].str : i \in 1..Len(img.names)})

\* C16: after back-patching, each of the four ToC header entries holds the offset, relative to 180, at which its block starts in the output and the number of records emitted into it (for names: the number of distinct strings stored); for the archives EssenceFSV2 saves and for what the native writer makes of them.
C16_TocHeaderEntries ==
    \A img \in StoredImages :
        /\ PtrsMatch(img)
        /\ \A n \in {SgaWriterWrite(FsSpecParse(img))} : PtrsMatch(n)

\* the decompressed payload of a record of the native writer's file stream
WrittenPayload(n, i) ==
    LET Of(e) == IF n.files[i].flags \in {BUFFER_COMPRESS, STREAM_COMPRESS}
                 THEN zlib_decompress(e.payload) ELSE e.payload
    IN  Of(CHOOSE e \in {n.data[k] : k \in 1..Len(n.data)} : e.off = n.files[i].data_offset)

\* C17: for every file a packer emits, the record's data_offset is the data-block position at which the file's 264-byte data header was reserved plus 264: the header occupies [data_offset - 264, data_offset) of the data block and the payload starts at data_offset.
C17_DataOffsetBehindHeader ==
    \A img \in StoredImages :
        /\ \A i \in 1..Len(img.files) :
               /\ img.files[i].data_offset >= DATA_HEADER_SIZE
               /\ HasDataEntry(img.data, img.files[i].data_offset)
        /\ \A n \in {SgaWriterWrite(FsSpecParse(img))} : \A i \in 1..Len(n.files) :
               /\ n.files[i].data_offset >= FILE_METADATA_SIZE
               /\ read_metadata(n, n.data_at + n.files[i].data_offset) # NoMetadata
               /\ \E k \in 1..Len(n.data) : n.data[k].off = n.files[i].data_offset

\* C18: for every file of an archive the library wrote, the crc32 a reader of the library takes from the file's data header is the CRC32 of the file's decompressed payload.
C18_HeaderCrcOfPayload ==
    \A img \in StoredImages :
        /\ \A i \in 1..Len(img.files) :
               LazyFile(img, i).crc32 = crc32_hash(PayloadOf(img, i))
        /\ \A n \in {SgaWriterWrite(FsSpecParse(img))} : \A i \in 1..Len(n.files) :
               read_metadata(n, n.data_pos + n.files[i].data_offset).crc32
                   = crc32_hash(WrittenPayload(n, i))

\* the folders a drive of the filesystem holds, its root included
RECURSIVE CountFolders(_, _)
RECURSIVE CountFoldersOf(_, _)
CountFoldersOf(g, ids) ==
    IF Len(ids) = 0 THEN 0 ELSE CountFolders(g, Head(ids)) + CountFoldersOf(g, Tail(ids))

CountFolders(g, d) == 1 + CountFoldersOf(g, g.folders[d].folders)

\* the directories of an fsspec tree, the roots included
RECURSIVE CountDirectories(_)
CountDirectories(dirs) ==
    IF Len(dirs) = 0 THEN 0
    ELSE 1 + CountDirectories(Head(dirs).sub_folders) + CountDirectories(Tail(dirs))

\* what the log of a disassembly shows of the folder block it left: every record was
\* reserved once, as a counted placeholder, and written back once, later, when the
\* records below it were written back and its files were out; nothing else was written
LogReservesAndRewrites(log, recs, outs) ==
    LET Reserved(p) == {e \in 1..Len(log) : log[e].at = p /\ log[e].counted}
        Rewritten(p) == {e \in 1..Len(log) : log[e].at = p /\ ~log[e].counted}
    IN  /\ \A e \in 1..Len(log) : log[e].at \in 0..(Len(recs) - 1)
        /\ \A p \in 0..(Len(recs) - 1) :
               /\ Cardinality(Reserved(p)) = 1
               /\ Cardinality(Rewritten(p)) = 1
               /\ \A b \in Reserved(p) : \A r \in Rewritten(p) :
                      /\ log[b].blank /\ ~log[r].blank
                      /\ log[b].folders = p
                      /\ b < r
                      /\ log[r].files >= recs[p + 1].last_file
                      /\ log[r].files <= Len(outs)
                      /\ \A c \in recs[p + 1].first_folder..(recs[p + 1].last_folder - 1) :
                             \A rc \in Rewritten(c) : rc < r

\* C19: during disassembly every folder gets exactly one reserved record, a placeholder counted once, and that record is rewritten exactly once, at its reserved offset, after the folder's subtree was emitted; in the end no placeholder is left and the folder count is the number of folders; for the disassembler of EssenceFSV2 and for the fsspec writer.
C19_PlaceholderRewrittenOnce ==
    /\ \A t \in {disassemble(G)} :
           /\ LogReservesAndRewrites(t.log, t.folders, t.files)
           /\ t.folder_count = Len(t.folders)
           /\ t.folder_count = CountFoldersOf(G, [k \in 1..Len(drives) |-> drives[k].root])
    /\ \A img \in StoredImages : \A sga \in {FsSpecParse(img)} :
           \A n \in {SgaWriterWrite(sga)} :
               /\ LogReservesAndRewrites(n.log, n.folders, n.files)
               /\ n.ptrs.folder.count = Len(n.folders)
               /\ n.ptrs.folder.count = CountDirectories(sga)

C19_Witness ==
    /\ ops > 0
    /\ \E t \in {disassemble(G)} :
           /\ t.folder_count > Len(SourceImage.folders)
           /\ Len(t.log) = 2 * t.folder_count
    /\ \E img \in StoredImages :
           SgaWriterWrite(FsSpecParse(img)).ptrs.folder.count = Len(SourceImage.folders)

\* the half-open ranges of the drive records ds split 0..folder_count-1 and
\* 0..file_count-1: no two ranges share an index and no index is left out
DrivesPartition(ds, folder_count, file_count) ==
    LET Folders(k) == ds[k].first_folder..(ds[k].last_folder - 1)
        Files(k) == ds[k].first_file..(ds[k].last_file - 1)
    IN  /\ \A k \in 1..Len(ds) :
               /\ ds[k].first_folder <= ds[k].last_folder
               /\ ds[k].first_file <= ds[k].last_file
        /\ \A j \in 1..Len(ds) : \A k \in (j + 1)..Len(ds) :
               /\ Folders(j) \cap Folders(k) = {}
               /\ Files(j) \cap Files(k) = {}
        /\ UNION {Folders(k) : k \in 1..Len(ds)} = 0..(folder_count - 1)
        /\ UNION {Files(k) : k \in 1..Len(ds)} = 0..(file_count - 1)

U_z == <<"z">>
U_x == <<"a", "\\", "x">>
U_n == <<"a", "\\", "n">>
U_a == <<"a">>

UnqualifiedPaths == {U_z, U_x, U_n, U_a}

\* the path u inside the drive at position k of the drive map
InDrive(g, k, u) == build(<<u>>, TRUE, g.drives[k].alias)

\* the drives, by position, in which looking u up by its qualified path succeeds
DrivesHolding(g, u) ==
    {k \in 1..Len(g.drives) : getnode(g, InDrive(g, k, u), TRUE).err = "ok"}

\* the drives, by position, in which u opens for reading by its qualified path
DrivesOpening(g, u) ==
    {k \in 1..Len(g.drives) : openbin(g, InDrive(g, k, u), "r").err = "ok"}

First(S) == CHOOSE k \in S : \A j \in S : k <= j

C21_GetnodeFirstDrive ==
    \A u \in UnqualifiedPaths : \A hits \in {DrivesHolding(G, u)} :
        \A r \in {getnode(G, u, TRUE)} :
            IF hits = {} THEN r.err = "ResourceNotFound"
            ELSE r = getnode(G, InDrive(G, First(hits), u), TRUE)

\* C21: for a path without an alias, lookup searches the drives in declaration order and returns the node of the first drive in which the path exists; it fails with ResourceNotFound only when the path exists in no drive; for the node lookup behind getinfo, listdir and setinfo, and for opening a file for reading.
C21_FirstDriveWins ==
    /\ C21_GetnodeFirstDrive
    /\ \A u \in UnqualifiedPaths : \A hits \in {DrivesOpening(G, u)} :
           \A o \in {openbin(G, u, "r")} :
               IF hits = {} THEN o.err # "ok"
               ELSE /\ o.err = "ok"
                    /\ o.f = openbin(G, InDrive(G, First(hits), u), "r").f

\* ------------------------------------------------------------ qualified paths
\* the trees of the drives of g other than the drive at position k
OtherDrives(g, k) ==
    [j \in (1..Len(g.drives)) \ {k} |-> FolderView(g, g.drives[j].root)]

\* C22: an operation given a path with an alias acts on the drive of that alias and on no other: remove and removedir of alias:\x edit the folder that alias:\x lies in, as they would with the parent looked up under the alias, and openbin for writing, makedir, remove and removedir leave the tree of every other drive as it was.
C22_AliasSelectsDrive ==
    \A path \in FilePaths \cup DirPaths : \A p \in {parse(path)} :
        \A k \in {DriveIndex(G, p.alias)} : \A e \in {try_enter_parent(G, path)} :
            (k # 0 /\ p.path # ROOT) =>
                /\ remove(G, path) =
                       (IF e.err # "ok" THEN Raise(e.err, G)
                        ELSE FolderRemoveFile(G, e.parent, e.child))
                /\ removedir(G, path) =
                       (IF e.err # "ok" THEN Raise(e.err, G)
                        ELSE FolderRemoveFolder(G, e.parent, e.child))
                /\ \A after \in {remove(G, path).g, removedir(G, path).g,
                                 openbin(G, path, "w").g, makedir(G, path, FALSE).g} :
                       OtherDrives(after, k) = OtherDrives(G, k)

\* ------------------------------------------------------------ makedirs
\* the loop of EssenceFSV2.makedirs: every part is made below the directory the
\* part before it gave, through makedir of the filesystem
RECURSIVE MakedirsWalk(_, _, _, _)
MakedirsWalk(g, current, parts, recreate) ==
    LET Made(r, next) ==
            IF r.err # "ok" THEN r ELSE MakedirsWalk(r.g, next, Tail(parts), recreate)
        Of(next) == Made(makedir(g, next, recreate), next)
    IN  IF Len(parts) = 0 THEN Raise("ok", g)
        ELSE Of(current \o (IF current[Len(current)] = SEP THEN <<>> ELSE <<SEP>>)
                        \o strip_root(Head(parts)))

\* EssenceFSV2.makedirs: [err, g]
makedirs(g, path, recreate) ==
    LET Walk(start, g1, alias_path, p) ==
            IF start # "ok" THEN Raise(start, g1)
            ELSE MakedirsWalk(g1, alias_path, split_parts(p.path, FALSE), recreate)
        Aliased(p, alias_path) ==
            IF recreate
            THEN \* makedir(alias_path, recreate=True)
                 Walk(makedir(g, alias_path, TRUE).err, makedir(g, alias_path, TRUE).g,
                      alias_path, p)
            ELSE Walk(opendir(g, alias_path), g, alias_path, p)
        Of(p) ==
            IF p.has_alias THEN Aliased(p, build(<<>>, TRUE, p.alias))
            ELSE IF Len(g.drives) = 1
            THEN Walk(opendir(g, build(<<>>, TRUE, g.drives[1].alias)), g,
                      build(<<>>, TRUE, g.drives[1].alias), p)
            ELSE IF Len(g.drives) = 0 THEN Raise("OperationFailed", g)
            ELSE Raise("InvalidPath", g)
    IN  Of(parse(path))

\* what makedirs does with a path without an alias while there are several drives
C23_MakedirsRefuses ==
    Len(drives) > 1 =>
        \A u \in UnqualifiedPaths : \A recreate \in BOOLEAN :
            makedirs(G, u, recreate) = Raise("InvalidPath", G)

\* C23: while the archive has more than one drive, every write to a path without an alias (opening or creating a file for writing, makedir, makedirs, remove, removedir) fails with the ambiguous-drive error, InvalidPath, and changes no drive.
C23_UnqualifiedWriteRefused ==
    Len(drives) > 1 =>
        \A u \in UnqualifiedPaths :
            \A r \in {makedirs(G, u, FALSE), makedirs(G, u, TRUE),
                      makedir(G, u, FALSE), makedir(G, u, TRUE),
                      remove(G, u), removedir(G, u),
                      [err |-> openbin(G, u, "w").err, g |-> openbin(G, u, "w").g]} :
                r = Raise("InvalidPath", G)

\* ------------------------------------------------------------ SgaFileV2 verifier
\* vfy is an SgaFileV2 on a stream: writable is stream.writable(); toc and data stand
\* for the bytes of the ToC window and of the data block, file_md5 and toc_md5 are
\* the digests stored in the meta block; verified_file and verified_header are the
\* attributes "__verified_file" and "__verified_header", <<>> while not set; asked,
\* answer and current record the last query, what it returned and what hashing the
\* bytes gave when it was made.
Contents == 0..1

Answer(b) == IF b THEN "true" ELSE "false"

\* md5.check over the stream against the stored digest, for verify_file (from
\* toc_pos to the end) and for verify_header (the ToC window)
CheckDigest(v, which) ==
    IF which = "file" THEN md5_hash(FILE_MD5_EIGEN, <<v.toc, v.data>>) = v.file_md5
    ELSE md5_hash(TOC_MD5_EIGEN, <<v.toc>>) = v.toc_md5

Remembered(v, which) == IF which = "file" THEN v.verified_file ELSE v.verified_header

Remember(v, which, result) ==
    IF which = "file" THEN [v EXCEPT !.verified_file = <<result>>]
    ELSE [v EXCEPT !.verified_header = <<result>>]

verify_trusting(v, cached, error, which) ==
    IF error \/ ~cached \/ Remembered(v, which) = <<>>
    THEN IF ~error
         THEN [v |-> Remember(v, which, CheckDigest(v, which)),
               out |-> Answer(CheckDigest(v, which))]
         ELSE IF CheckDigest(v, which)
         THEN [v |-> Remember(v, which, TRUE), out |-> "true"]
         ELSE [v |-> v, out |-> "raise"]
    ELSE [v |-> v, out |-> Answer(Remembered(v, which)[1])]

\* SgaFileV2.__verify: [v, out], out "true", "false" or "raise" (hasher.validate)
verify(v, cached, error, which) ==
    IF v.writable \/ error \/ ~cached \/ Remembered(v, which) = <<>>
    THEN IF ~error
         THEN [v |-> Remember(v, which, CheckDigest(v, which)),
               out |-> Answer(CheckDigest(v, which))]
         ELSE IF CheckDigest(v, which)
         THEN [v |-> Remember(v, which, TRUE), out |-> "true"]
         ELSE [v |-> v, out |-> "raise"]
    ELSE [v |-> v, out |-> Answer(Remembered(v, which)[1])]

\* SgaFileV2.verify_file
verify_file(v, cached, error) == verify(v, cached, error, "file")

\* SgaFileV2.verify_header
verify_header(v, cached, error) == verify(v, cached, error, "header")

Asked(r, which, was) ==
    [r.v EXCEPT !.asked = which, !.answer = r.out,
                !.current = IF CheckDigest(was, which) THEN "true"
                            ELSE IF r.out = "raise" THEN "raise" ELSE "false"]

InitVerify ==
    /\ \E g \in {load_lazy(SourceImage)} :
           /\ drives = g.drives
           /\ folders = g.folders
           /\ files = g.files
    /\ lazy_file = TRUE
    /\ stream = SourceStream(0)
    /\ dst = EmptyStream
    /\ handles = {}
    /\ fate = "open"
    /\ ops = 0
    /\ opn = NoOpener
    /\ toch = NoHeader
    /\ nat = NoNative
    /\ last_save = [out |-> "-", wrote_src |-> FALSE, lazy |-> FALSE]
    /\ ser = NoSerializer
    /\ \E writable \in BOOLEAN, toc \in Contents, data \in Contents :
           vfy = [NoVerifier EXCEPT !.writable = writable, !.toc = toc, !.data = data]
    /\ pool = NoPool
    /\ lk = NoLock
    /\ fmt = NoFormat
    /\ arc = NoArciv

VerifyFile(cached, error) ==
    /\ vfy' = Asked(verify_file(vfy, cached, error), "file", vfy)
    /\ UNCHANGED <<fs_vars, pool, lk, fmt, arc, nat, toch, opn>>

VerifyHeader(cached, error) ==
    /\ vfy' = Asked(verify_header(vfy, cached, error), "header", vfy)
    /\ UNCHANGED <<fs_vars, pool, lk, fmt, arc, nat, toch, opn>>

\* a write through the stream into the ToC window
WriteToc(c) ==
    /\ vfy.writable
    /\ vfy' = [vfy EXCEPT !.toc = c, !.asked = "none", !.answer = "none",
                          !.current = "none"]
    /\ UNCHANGED <<fs_vars, pool, lk, fmt, arc, nat, toch, opn>>

\* a write through the stream into the data block
WriteDataBlock(c) ==
    /\ vfy.writable
    /\ vfy' = [vfy EXCEPT !.data = c, !.asked = "none", !.answer = "none",
                          !.current = "none"]
    /\ UNCHANGED <<fs_vars, pool, lk, fmt, arc, nat, toch, opn>>

\* meta.file_md5 = ..., meta.toc_md5 = ...: the digests of the bytes as they are now
\* are written into the meta block
WriteDigests ==
    /\ vfy.writable
    /\ vfy' = [vfy EXCEPT !.file_md5 = md5_hash(FILE_MD5_EIGEN, <<vfy.toc, vfy.data>>),
                          !.toc_md5 = md5_hash(TOC_MD5_EIGEN, <<vfy.toc>>),
                          !.asked = "none", !.answer = "none", !.current = "none"]
    /\ UNCHANGED <<fs_vars, pool, lk, fmt, arc, nat, toch, opn>>

NextVerify ==
    \/ \E cached \in BOOLEAN, error \in BOOLEAN : VerifyFile(cached, error)
    \/ \E cached \in BOOLEAN, error \in BOOLEAN : VerifyHeader(cached, error)
    \/ \E c \in Contents : WriteToc(c)
    \/ \E c \in Contents : WriteDataBlock(c)
    \/ WriteDigests

SpecVerify == InitVerify /\ [][NextVerify]_vars

\* what was last answered is what hashing gave at the query, and what a read-only
\* stream has remembered is what hashing its bytes gives
C24_Fresh ==
    /\ vfy.asked # "none" => vfy.answer = vfy.current
    /\ vfy.verified_file # <<>> /\ ~vfy.writable => vfy.verified_file[1] = CheckDigest(vfy, "file")
    /\ vfy.verified_header # <<>> /\ ~vfy.writable =>
           vfy.verified_header[1] = CheckDigest(vfy, "header")

\* a query for one digest leaves what is remembered for the other
C24_Independent ==
    [][/\ (\E cached \in BOOLEAN, error \in BOOLEAN : VerifyFile(cached, error))
            => vfy'.verified_header = vfy.verified_header
       /\ (\E cached \in BOOLEAN, error \in BOOLEAN : VerifyHeader(cached, error))
            => vfy'.verified_file = vfy.verified_file]_vars

\* C24: the verifier cache never serves a stale answer: a header-MD5 or file-MD5 query returns what hashing the bytes as they are at the query gives, also after writes to the archive's bytes, and a query for one of the two leaves what is remembered for the other as it was.
C24_NoStaleAnswer == []C24_Fresh /\ C24_Independent

C24_Witness ==
    /\ vfy.writable
    /\ vfy.verified_file = <<FALSE>>
    /\ vfy.verified_header = <<TRUE>>
    /\ vfy.asked = "file"
    /\ vfy.answer = "false"
    /\ vfy.toc = 0 /\ vfy.data = 1

\* ------------------------------------------------------------ parallel verification
\* pool is one call of verify_file_parallel(entries, num_workers): pc is where the
\* call is, queue the work items the executor holds in submission order (indices
\* into entries), running[w] the item worker thread w has taken (0 when idle),
\* futures[i] the state of the future of entries[i], order the indices whose
\* results list() has taken from the iterator of executor.map, results what it has
\* collected.
MaxEntries == 3
MaxWorkers == 2

\* entries handed to the verifier: the checksum in the metadata right, wrong, and no
\* metadata read for the entry (FileEntryV2.metadata is None)
E_good == [name |-> "x", storage_type |-> STORE, stored |-> <<3>>,
           metadata |-> <<[crc32 |-> crc32_hash(<<3>>)]>>]
E_zipped == [name |-> "y", storage_type |-> STREAM_COMPRESS, stored |-> zlib_compress(<<3>>),
             metadata |-> <<[crc32 |-> crc32_hash(<<3>>)]>>]
E_bad == [name |-> "n", storage_type |-> STORE, stored |-> <<3>>,
          metadata |-> <<[crc32 |-> crc32_hash(<<4>>)]>>]
E_bare == [name |-> "z", storage_type |-> STORE, stored |-> <<3>>, metadata |-> <<>>]

PoolEntries == {E_good, E_zipped, E_bad, E_bare}

\* SgaReader.read_file(self, entry, decompress=True)
read_file(entry) ==
    IF entry.storage_type # STORE THEN zlib_decompress(entry.stored) ELSE entry.stored

\* SgaVerifierV2.verify_file(entry, entry.metadata): [raised, value]
verifier_verify_file(entry) ==
    IF entry.metadata = <<>> THEN [raised |-> TRUE, value |-> "AttributeError"]
    ELSE [raised |-> FALSE,
          value |-> crc32_hash(read_file(entry)) = entry.metadata[1].crc32]

read_unguarded(entry) ==
    LET Of(v) ==
            IF v.raised THEN [kind |-> "exception", error |-> v.value]
            ELSE [kind |-> "result", input |-> entry, ok |-> TRUE, output |-> v.value]
    IN  Of(verifier_verify_file(entry))

\* read(entry) inside verify_file_parallel: what the future of the entry ends with
read(entry) ==
    LET Of(v) ==
            IF v.raised
            THEN [kind |-> "result", input |-> entry, ok |-> FALSE, output |-> v.value]
            ELSE [kind |-> "result", input |-> entry, ok |-> TRUE, output |-> v.value]
    IN  Of(verifier_verify_file(entry))

Pending == [kind |-> "pending"]

Taken(p) == {p.order[i] : i \in 1..Len(p.order)}

next_future_as_completed(p) ==
    {i \in 1..Len(p.entries) : i \notin Taken(p) /\ p.futures[i] # Pending}

\* the iterator executor.map returns: the futures in submission order, each waited
\* for; the indices list() can take next
next_future(p) == {i \in {Len(p.order) + 1} \cap (1..Len(p.entries)) : p.futures[i] # Pending}

InitPool ==
    /\ \E g \in {load_lazy(SourceImage)} :
           /\ drives = g.drives
           /\ folders = g.folders
           /\ files = g.files
    /\ lazy_file = TRUE
    /\ stream = SourceStream(0)
    /\ dst = EmptyStream
    /\ handles = {}
    /\ fate = "open"
    /\ ops = 0
    /\ opn = NoOpener
    /\ toch = NoHeader
    /\ nat = NoNative
    /\ last_save = [out |-> "-", wrote_src |-> FALSE, lazy |-> FALSE]
    /\ ser = NoSerializer
    /\ vfy = NoVerifier
    /\ lk = NoLock
    /\ fmt = NoFormat
    /\ arc = NoArciv
    /\ \E n \in 0..MaxEntries, num_workers \in 1..MaxWorkers :
           \E entries \in [1..n -> PoolEntries] :
               pool = [NoPool EXCEPT !.pc = "called", !.entries = entries,
                                     !.num_workers = num_workers,
                                     !.running = [w \in 1..num_workers |-> 0],
                                     !.futures = [i \in 1..n |-> Pending]]

\* executor.map(read, entries): a future is submitted for every entry, in order
PoolMap ==
    /\ pool.pc = "called"
    /\ pool' = [pool EXCEPT !.pc = "collect",
                            !.queue = [i \in 1..Len(pool.entries) |-> i]]
    /\ UNCHANGED <<fs_vars, vfy, lk, fmt, arc, nat, toch, opn>>

\* an idle worker thread takes the oldest work item
WorkerTake(w) ==
    /\ pool.pc \in {"collect", "raised", "shutdown"}
    /\ pool.running[w] = 0
    /\ Len(pool.queue) > 0
    /\ pool' = [pool EXCEPT !.running[w] = Head(pool.queue), !.queue = Tail(@)]
    /\ UNCHANGED <<fs_vars, vfy, lk, fmt, arc, nat, toch, opn>>

\* the worker thread runs read(entry) and sets the future
WorkerFinish(w) ==
    /\ pool.running[w] # 0
    /\ pool' = [pool EXCEPT !.futures[pool.running[w]] = read(pool.entries[pool.running[w]]),
                            !.running[w] = 0]
    /\ UNCHANGED <<fs_vars, vfy, lk, fmt, arc, nat, toch, opn>>

\* list(...) takes the next result from the iterator; a future that ended with an
\* exception raises it out of verify_file_parallel
PoolCollect ==
    /\ pool.pc = "collect"
    /\ \E i \in next_future(pool) :
           pool' = IF pool.futures[i].kind = "exception"
                   THEN [pool EXCEPT !.pc = "raised"]
                   ELSE [pool EXCEPT !.order = Append(@, i),
                                     !.results = Append(@, pool.futures[i])]
    /\ UNCHANGED <<fs_vars, vfy, lk, fmt, arc, nat, toch, opn>>

\* the iterator is exhausted; leaving the with block waits for the worker threads
PoolShutdown ==
    /\ pool.pc = "collect"
    /\ Len(pool.order) = Len(pool.entries)
    /\ pool' = [pool EXCEPT !.pc = "shutdown"]
    /\ UNCHANGED <<fs_vars, vfy, lk, fmt, arc, nat, toch, opn>>

\* return results
PoolReturn ==
    /\ pool.pc = "shutdown"
    /\ Len(pool.queue) = 0
    /\ \A w \in 1..pool.num_workers : pool.running[w] = 0
    /\ pool' = [pool EXCEPT !.pc = "returned"]
    /\ UNCHANGED <<fs_vars, vfy, lk, fmt, arc, nat, toch, opn>>

NextPool ==
    \/ PoolMap
    \/ \E w \in 1..MaxWorkers : w <= pool.num_workers /\ WorkerTake(w)
    \/ \E w \in 1..MaxWorkers : w <= pool.num_workers /\ WorkerFinish(w)
    \/ PoolCollect
    \/ PoolShutdown
    \/ PoolReturn

SpecPool == InitPool /\ [][NextPool]_vars

\* C25: parallel CRC verification returns exactly one result per input entry, and result i belongs to input entry i, whatever the number of workers and the order in which they finish.
C25_ResultsInInputOrder ==
    /\ Len(pool.results) <= Len(pool.entries)
    /\ \A i \in 1..Len(pool.results) : pool.results[i].input = pool.entries[i]
    /\ pool.pc = "returned" => Len(pool.results) = Len(pool.entries)

C25_Witness ==
    /\ pool.pc = "returned"
    /\ pool.num_workers = 2
    /\ pool.entries = <<E_good, E_bad, E_zipped>>
    /\ pool.order = <<1, 2, 3>>

\* C26: an exception raised while verifying one file becomes an error result for that file only: the call never raises, it can always go on until it returns, and every result, for the failing file as for the others, is what verifying that entry by itself gives.
C26_ErrorsStayPerFile ==
    /\ pool.pc # "raised"
    /\ pool.pc \in {"idle", "returned"} \/ ENABLED NextPool
    /\ \A i \in 1..Len(pool.results) :
           /\ pool.results[i].kind = "result"
           /\ pool.results[i].ok = ~verifier_verify_file(pool.entries[i]).raised
           /\ pool.results[i].output = verifier_verify_file(pool.entries[i]).value

C26_Witness ==
    /\ pool.pc = "returned"
    /\ pool.entries = <<E_good, E_bare, E_bad>>
    /\ ~pool.results[2].ok
    /\ pool.results[1].ok /\ pool.results[1].output = TRUE
    /\ pool.results[3].ok /\ pool.results[3].output = FALSE

\* ------------------------------------------------------------ the lock of a file
\* lk is one SgaFsFileV2Mem and the threads that write to it: owner is the thread
\* holding _lock (0 when free) and depth how often it entered the RLock, buf and
\* pos are _handle, pc[t] is where thread t is and left[t] how many bytes it still
\* has to write; thread t writes the byte t.
Writers == 1..2
MaxWrites == 2

InitLock ==
    /\ \E g \in {load_lazy(SourceImage)} :
           /\ drives = g.drives
           /\ folders = g.folders
           /\ files = g.files
    /\ lazy_file = TRUE
    /\ stream = SourceStream(0)
    /\ dst = EmptyStream
    /\ handles = {}
    /\ fate = "open"
    /\ ops = 0
    /\ opn = NoOpener
    /\ toch = NoHeader
    /\ nat = NoNative
    /\ last_save = [out |-> "-", wrote_src |-> FALSE, lazy |-> FALSE]
    /\ ser = NoSerializer
    /\ vfy = NoVerifier
    /\ pool = NoPool
    /\ fmt = NoFormat
    /\ arc = NoArciv
    /\ \E data \in {<<>>, <<3>>} : \E n \in [Writers -> 1..MaxWrites] :
           lk = [NoLock EXCEPT !.buf = data, !.crc32 = crc32_hash(data),
                               !.pc = [t \in Writers |-> "idle"], !.left = n]

\* SgaFsFileV2.openbin("w") enters SgaFsFileV2Mem.openbin: "with self._lock" up to
\* the yield; a thread waits while another thread holds the lock
LockEnter(t) ==
    /\ lk.pc[t] = "idle"
    /\ lk.left[t] > 0
    /\ lk.owner \in {0, t}
    /\ lk' = [lk EXCEPT !.owner = t, !.depth = @ + 1, !.pc[t] = "yielded"]
    /\ UNCHANGED <<fs_vars, vfy, pool, fmt, arc, nat, toch, opn>>

\* "return stream" inside the with block of SgaFsFileV2.openbin leaves the context
\* manager: the handle is rewound and the lock released
LockLeave(t) ==
    /\ lk.pc[t] = "yielded"
    /\ lk' = [lk EXCEPT !.pos = 0, !.depth = @ - 1,
                        !.owner = IF lk.depth = 1 THEN 0 ELSE @,
                        !.pc[t] = "recalculate"]
    /\ UNCHANGED <<fs_vars, vfy, pool, fmt, arc, nat, toch, opn>>

\* recalculate_crc32 after the with block, for a writing mode: the lock is taken
\* again, the buffer hashed from the start, the handle rewound, the lock released;
\* then the caller has the handle
LockRecalculate(t) ==
    /\ lk.pc[t] = "recalculate"
    /\ lk.owner \in {0, t}
    /\ lk' = [lk EXCEPT !.crc32 = crc32_hash(lk.buf), !.pos = 0, !.pc[t] = "writing"]
    /\ UNCHANGED <<fs_vars, vfy, pool, fmt, arc, nat, toch, opn>>

\* handle.write(bytes([t])) through the handle openbin returned
LockWrite(t) ==
    /\ lk.pc[t] = "writing"
    /\ lk.left[t] > 0
    /\ lk' = [lk EXCEPT !.buf = BufWrite(@, lk.pos, <<t>>), !.pos = @ + 1,
                        !.left[t] = @ - 1]
    /\ UNCHANGED <<fs_vars, vfy, pool, fmt, arc, nat, toch, opn>>

\* the thread has written what it had and lets go of the handle
LockDone(t) ==
    /\ lk.pc[t] = "writing"
    /\ lk.left[t] = 0
    /\ lk' = [lk EXCEPT !.pc[t] = "idle"]
    /\ UNCHANGED <<fs_vars, vfy, pool, fmt, arc, nat, toch, opn>>

NextLock ==
    \/ \E t \in Writers : LockEnter(t)
    \/ \E t \in Writers : LockLeave(t)
    \/ \E t \in Writers : LockRecalculate(t)
    \/ \E t \in Writers : LockWrite(t)
    \/ \E t \in Writers : LockDone(t)

SpecLock == InitLock /\ [][NextLock]_vars

\* C27: writers of one in-memory file are serialized by the lock of the file: a thread that has a handle opened for writing and is still writing through it holds the lock, so no second thread is writing to the file at that time.
C27_WritersSerialized ==
    /\ \A t \in Writers : lk.pc[t] = "writing" => lk.owner = t
    /\ \A t \in Writers : \A u \in Writers \ {t} :
           ~(lk.pc[t] = "writing" /\ lk.pc[u] = "writing")

\* the bytes of the two writers alternate in the buffer
C27_Interleaved ==
    /\ Len(lk.buf) >= 2
    /\ lk.left = [t \in Writers |-> 0]
    /\ \E i \in 1..(Len(lk.buf) - 1) : lk.buf[i] # lk.buf[i + 1]

\* ------------------------------------------------------------ saving in place
\* C28: an in-place save seeks to the start of the backing stream and truncates it: the save succeeds from wherever the stream stood, and afterwards the stream holds exactly the newly serialized archive, from offset 0 and with no byte of the previous contents after its end.
C28_InPlaceSaveReplaces ==
    CanCall =>
        \A safe_write \in BOOLEAN : \A r \in {save_in_place(Archive, safe_write)} :
            /\ r.err = "ok"
            /\ Len(r.stream.img) = 1
            /\ r.stream.size = ImageSize(r.stream.img[1])

\* ------------------------------------------------------------ removing folders
\* the folders of DirPaths that are there and hold at least one child
NonEmptyDirs(g) ==
    {path \in DirPaths :
        /\ parse(path).path # ROOT
        /\ \E n \in {getnode(g, path, TRUE)} :
               n.err = "ok" /\ n.node.kind = "folder" /\ scandir(g, n.node.id) # {}}

\* C29: removedir on a folder that still has at least one child fails with DirectoryNotEmpty and leaves the folder and its contents in place.
C29_NonEmptyDirStays ==
    \A path \in NonEmptyDirs(G) : removedir(G, path) = Raise("DirectoryNotEmpty", G)

\* ---------------------------------------------------------------------------
\* File-record variant of the table of contents
\* (serialization.py SgaTocV2, native/parser.py NativeParserV2._parse_files)
\* ---------------------------------------------------------------------------

\* most file records of an archive under test
MaxRecords == 2

\* SgaTocFileV2ImpCreatures._SIZE, IC_FILE_ENTRY.size ("<IB3I")
FILE_SIZE_IC == 17

\* SgaV2GameFormat without Unknown
GameFormats == {"DawnOfWar", "ImpossibleCreatures"}

\* the hint a caller may pass: a game format or None
Hints == GameFormats \cup {"None"}

\* GAME_FORMAT_TOC_FILE, each class by its _SIZE
GAME_FORMAT_TOC_FILE == [DawnOfWar |-> FILE_SIZE_DOW, ImpossibleCreatures |-> FILE_SIZE_IC]

\* width of the flags field: _FLAGS = (4, 4) for Dawn of War, (4, 1) for Impossible Creatures
FlagsSize(game) == IF game = "DawnOfWar" THEN 4 ELSE 1

\* int.to_bytes(v, n, "little")
to_le(v, n) == [i \in 1..n |-> (v \div (256 ^ (i - 1))) % 256]

\* int.from_bytes(b, "little")
RECURSIVE from_le(_)
from_le(b) == IF b = <<>> THEN 0 ELSE Head(b) + 256 * from_le(Tail(b))

\* b[m-1:n] of Python: a slice is clipped to the bytes there are
BytesSlice(b, m, n) == SubSeq(b, m, IF n < Len(b) THEN n ELSE Len(b))

\* struct pack of one file record in the layout of game
pack(game, r) ==
    to_le(r.name_offset, 4) \o to_le(r.flags, FlagsSize(game)) \o to_le(r.data_offset, 4)
        \o to_le(r.compressed_size, 4) \o to_le(r.decompressed_size, 4)

\* the five fields of one file record read in the layout of game: name offset (0, 4), flags,
\* then data offset, compressed size and decompressed size, 4 bytes each
unpack(game, b) ==
    LET Of(f) == [ name_offset       |-> from_le(BytesSlice(b, 1, 4)),
                   flags             |-> from_le(BytesSlice(b, 5, 4 + f)),
                   data_offset       |-> from_le(BytesSlice(b, 5 + f, 8 + f)),
                   compressed_size   |-> from_le(BytesSlice(b, 9 + f, 12 + f)),
                   decompressed_size |-> from_le(BytesSlice(b, 13 + f, 16 + f)) ]
    IN  Of(FlagsSize(game))

\* file records an archive under test may hold
FormatRecords == [ name_offset : {0, 2}, flags : {0, 1, 16}, data_offset : {0},
                   compressed_size : {1}, decompressed_size : {1, 2} ]

\* the name table of the archives under test: "x\0y\0", found at offsets 0 and 2
FormatNames == <<120, 0, 121, 0>>

\* offsets of the name table that hold a name
FormatNameOffsets == {0, 2}

\* the first bytes of the data block, which follows the table of contents
FormatData == <<7, 7, 7>>

RECURSIVE PackAll(_, _)
PackAll(game, recs) ==
    IF recs = <<>> THEN <<>> ELSE pack(game, Head(recs)) \o PackAll(game, Tail(recs))

\* An archive whose file records are written in the layout of game: one drive, one folder, the
\* records, the names; offsets count from the ToC header, bytes holds the archive from the file
\* block on.
FormatArchive(game, recs) ==
    LET Of(file_offset, name_offset) ==
            [ pc |-> "closed", variant |-> game,
              ptrs |-> [ drive  |-> [offset |-> TOC_HEADER_SIZE, count |-> 1],
                         folder |-> [offset |-> TOC_HEADER_SIZE + DRIVE_SIZE, count |-> 1],
                         file   |-> [offset |-> file_offset, count |-> Len(recs)],
                         name   |-> [offset |-> name_offset, count |-> 2] ],
              toc_end |-> name_offset + Len(FormatNames), base |-> file_offset,
              bytes |-> PackAll(game, recs) \o FormatNames \o FormatData,
              hint |-> "None", game_format |-> "None", err |-> "ok", files |-> <<>>,
              out |-> [err |-> "none", file_block |-> 0, file_count |-> 0] ]
    IN  Of(TOC_HEADER_SIZE + DRIVE_SIZE + FOLDER_SIZE,
           TOC_HEADER_SIZE + DRIVE_SIZE + FOLDER_SIZE + GAME_FORMAT_TOC_FILE[game] * Len(recs))

\* SgaTocV2._determine_next_header_block_ptr: the smallest table offset above index, or toc_end
determine_next_header_block_ptr(header, toc_end, index) ==
    LET Step(smallest, ptr) == IF index < ptr /\ ptr < smallest THEN ptr ELSE smallest
    IN  Step(Step(Step(Step(toc_end, header.drive.offset), header.folder.offset),
                  header.file.offset), header.name.offset)

\* SgaTocV2._determine_game: Unknown for an empty file block, the format whose _SIZE is the
\* file block's size divided by the file count, RelicToolError when it is neither
determine_game(header, toc_end) ==
    LET file_block_start == header.file.offset
        file_count       == header.file.count
        SizeOf(file_block_end) == file_block_end - file_block_start
        Of(file_block_size) ==
            IF \E game \in GameFormats : GAME_FORMAT_TOC_FILE[game] * file_count = file_block_size
            THEN [err |-> "ok",
                  game |-> CHOOSE game \in GameFormats :
                               GAME_FORMAT_TOC_FILE[game] * file_count = file_block_size]
            ELSE [err |-> "RelicToolError", game |-> "None"]
    IN  IF file_count = 0
        THEN [err |-> "ok", game |-> "Unknown"]
        ELSE Of(SizeOf(determine_next_header_block_ptr(header, toc_end, file_block_start)))

\* values of StorageType; StorageType(v) raises ValueError for any other v
StorageTypes == 0..2

\* _parse_dow_storge_type: (v & 0xF0) >> 4
parse_dow_storge_type(v) == (v % 256) \div 16

\* _parse_ic_storge_type: the flags byte as it is
parse_ic_storge_type(v) == v

\* _parse_files's parse_storage_type, chosen by the game
parse_storage_type(game, v) ==
    IF game = "DawnOfWar" THEN parse_dow_storge_type(v) ELSE parse_ic_storge_type(v)

\* bytes [offset, offset + size) of the archive, offset counted from the ToC header
ReadAt(a, offset, size) == BytesSlice(a.bytes, offset - a.base + 1, offset - a.base + size)

\* _parse_toc_header's file pointer: the offset and count of the header, its size up to the next
\* table above it (the tables sorted by offset, the last one ending at toc_size)
file_ptr(a) ==
    [ offset |-> a.ptrs.file.offset, count |-> a.ptrs.file.count,
      size |-> determine_next_header_block_ptr(a.ptrs, a.toc_end, a.ptrs.file.offset)
                   - a.ptrs.file.offset ]

\* _parse_files._determine_game_format: Dawn of War for no entries, the format whose entry size
\* times the count is the size of the file block, RelicToolError for any other size
determine_game_format(ptr) ==
    IF ptr.count = 0 THEN [err |-> "ok", game |-> "DawnOfWar"]
    ELSE IF ptr.size = FILE_SIZE_DOW * ptr.count THEN [err |-> "ok", game |-> "DawnOfWar"]
    ELSE IF ptr.size = FILE_SIZE_IC * ptr.count
         THEN [err |-> "ok", game |-> "ImpossibleCreatures"]
    ELSE [err |-> "RelicToolError", game |-> "None"]

\* the loop of _parse_files from entry file_index on: read s.size bytes, unpack them in the layout
\* of game, look the name up, convert the flags; the first exception ends the parse
RECURSIVE ParseEntries(_, _, _, _, _)
ParseEntries(a, ptr, game, file_index, done) ==
    LET Entry(r, storage_type) ==
            IF r.name_offset \notin FormatNameOffsets THEN [err |-> "KeyError", files |-> <<>>]
            ELSE IF storage_type \notin StorageTypes THEN [err |-> "ValueError", files |-> <<>>]
            ELSE ParseEntries(a, ptr, game, file_index + 1,
                     Append(done, [ name |-> r.name_offset, data_offset |-> r.data_offset,
                                    compressed_size |-> r.compressed_size,
                                    decompressed_size |-> r.decompressed_size,
                                    storage_type |-> storage_type ]))
        Unpacked(r) == Entry(r, parse_storage_type(game, r.flags))
        Buffer(buffer, size) ==
            IF Len(buffer) < size THEN [err |-> "struct.error", files |-> <<>>]
            ELSE Unpacked(unpack(game, buffer))
        Sized(size) == Buffer(ReadAt(a, ptr.offset + file_index * size, size), size)
    IN  IF file_index >= ptr.count THEN [err |-> "ok", files |-> done]
        ELSE Sized(GAME_FORMAT_TOC_FILE[game])

\* NativeParserV2._parse_files(ptr, string_table, game): the game is determined from the size of
\* the file block only when no game is given
parse_files(a, ptr, game) ==
    LET Parsed_(g, r) == [err |-> r.err, game |-> g, files |-> r.files]
        With(d) == IF d.err # "ok" THEN [err |-> d.err, game |-> "None", files |-> <<>>]
                   ELSE Parsed_(d.game, ParseEntries(a, ptr, d.game, 0, <<>>))
    IN  With(IF game = "None" THEN determine_game_format(ptr) ELSE [err |-> "ok", game |-> game])

\* archives of both variants with up to MaxRecords file records
FormatArchives ==
    {FormatArchive(game, recs) : game \in GameFormats,
                                 recs \in UNION {[1..n -> FormatRecords] : n \in 0..MaxRecords}}

InitFormat ==
    /\ \E g \in {load_lazy(SourceImage)} :
           /\ drives = g.drives
           /\ folders = g.folders
           /\ files = g.files
    /\ lazy_file = TRUE
    /\ stream = SourceStream(0)
    /\ dst = EmptyStream
    /\ handles = {}
    /\ fate = "open"
    /\ ops = 0
    /\ opn = NoOpener
    /\ toch = NoHeader
    /\ nat = NoNative
    /\ last_save = [out |-> "-", wrote_src |-> FALSE, lazy |-> FALSE]
    /\ ser = NoSerializer
    /\ vfy = NoVerifier
    /\ pool = NoPool
    /\ lk = NoLock
    /\ arc = NoArciv
    /\ fmt \in FormatArchives

\* SgaTocV2.__init__(parent, game): the header and the drive and folder areas, the game (the one
\* given, _determine_game when none is given), the file area with the record class of the game
TocOpen(game) ==
    /\ fmt.pc = "closed"
    /\ \E d \in {IF game = "None" THEN determine_game(fmt.ptrs, fmt.toc_end)
                 ELSE [err |-> "ok", game |-> game]} :
           fmt' = [fmt EXCEPT !.pc = IF d.err = "ok" THEN "open" ELSE "failed",
                              !.hint = game, !.game_format = d.game, !.err = d.err]
    /\ UNCHANGED <<fs_vars, vfy, pool, lk, arc, nat, toch, opn>>

\* the next record of the file area is read: its window is _SIZE bytes of the record class at
\* offset + index * _SIZE inside the table of contents, its fields are read at the offsets of
\* the class; storage_type is masked and shifted by _SgaTocFileV2 for both classes
TocReadFile ==
    /\ fmt.pc = "open"
    /\ fmt.game_format \in GameFormats
    /\ Len(fmt.files) < fmt.ptrs.file.count
    /\ \E size \in {GAME_FORMAT_TOC_FILE[fmt.game_format]} :
       \E window \in {BytesSlice(fmt.bytes, Len(fmt.files) * size + 1,
                                 IF (Len(fmt.files) + 1) * size < fmt.toc_end - fmt.base
                                 THEN (Len(fmt.files) + 1) * size ELSE fmt.toc_end - fmt.base)} :
       \E r \in {unpack(fmt.game_format, window)} :
           fmt' = [fmt EXCEPT !.files = Append(@,
                       [ name |-> r.name_offset, data_offset |-> r.data_offset,
                         compressed_size |-> r.compressed_size,
                         decompressed_size |-> r.decompressed_size,
                         storage_type |-> parse_dow_storge_type(r.flags) ])]
    /\ UNCHANGED <<fs_vars, vfy, pool, lk, arc, nat, toch, opn>>

\* NativeParserV2._parse_files with the game given (or None) on the file pointer of the header
NativeParseFiles(game) ==
    /\ fmt.pc = "closed"
    /\ \E r \in {parse_files(fmt, file_ptr(fmt), game)} :
           fmt' = [fmt EXCEPT !.pc = IF r.err = "ok" THEN "parsed" ELSE "failed",
                              !.hint = game, !.game_format = r.game, !.err = r.err,
                              !.files = r.files]
    /\ UNCHANGED <<fs_vars, vfy, pool, lk, arc, nat, toch, opn>>

\* most files added to an opened archive before it is saved
MaxAdded == 1

\* _V2TocDisassembler.write_file(...) with no window_start: the record class is looked up by the
\* game format of the disassembler (KeyError for a format that is no key of _TOC_FILE_HANDLERS),
\* a window of _SIZE zero bytes is appended to the file block and the file count grows by one
write_file(game_format, block) ==
    IF game_format \notin DOMAIN GAME_FORMAT_TOC_FILE
    THEN [block EXCEPT !.err = "KeyError"]
    ELSE [block EXCEPT !.file_block = @ + GAME_FORMAT_TOC_FILE[game_format], !.file_count = @ + 1]

\* write_file once for each of n files, up to the first exception
RECURSIVE WriteFileRecords(_, _, _)
WriteFileRecords(game_format, n, block) ==
    IF n = 0 \/ block.err # "ok" THEN block
    ELSE WriteFileRecords(game_format, n - 1, write_file(game_format, block))

\* EssenceFSV2.__init__ took _game_format from the table of contents it parsed; added files are
\* added to the file system and it is saved: SgaFsV2TocDisassembler(sga) is built with
\* "game_format or sga._game_format" (no game format is passed by the packer) and writes one file
\* record for every file of the file system
FormatSave(added) ==
    /\ fmt.pc = "open"
    /\ fmt' = [fmt EXCEPT !.pc = "saved",
                          !.out = WriteFileRecords(fmt.game_format, fmt.ptrs.file.count + added,
                                      [err |-> "ok", file_block |-> 0, file_count |-> 0])]
    /\ UNCHANGED <<fs_vars, vfy, pool, lk, arc, nat, toch, opn>>

NextFormat ==
    \/ \E game \in Hints : TocOpen(game)
    \/ TocReadFile
    \/ \E game \in Hints : NativeParseFiles(game)
    \/ \E added \in 0..MaxAdded : FormatSave(added)

SpecFormat == InitFormat /\ [][NextFormat]_vars

\* the record layout and the record layout asked for disagree
MismatchingHint ==
    /\ fmt.pc # "closed"
    /\ fmt.ptrs.file.count > 0
    /\ fmt.hint \in GameFormats
    /\ fmt.hint # fmt.variant

\* C30: opening an archive with a variant hint that contradicts the file-record size the archive uses (DOW on 17-byte records, IC on 20-byte records) fails with UndeterminedGameFormat, and no record is parsed with the mismatching layout.
C30_MismatchingHintRefused ==
    MismatchingHint => fmt.err = "UndeterminedGameFormat" /\ fmt.files = <<>>

\* an archive without file records was opened (or parsed) with no hint
EmptyOpened == fmt.pc # "closed" /\ fmt.ptrs.file.count = 0 /\ fmt.hint = "None"

\* C31: when the file count of an archive is zero, variant detection yields DOW, the game format of the archive is DOW from then on, and files added to it later are written with the 20-byte DOW record layout.
C31_EmptyArchiveIsDow ==
    EmptyOpened =>
        /\ fmt.err = "ok"
        /\ fmt.game_format = "DawnOfWar"
        /\ fmt.pc = "saved" =>
               /\ fmt.out.err = "ok"
               /\ fmt.out.file_block = FILE_SIZE_DOW * fmt.out.file_count

\* the drive roots alias:\ of the drives of g
ExistingDriveRoots(g) == {g.drives[k].alias \o <<":">> \o ROOT : k \in 1..Len(g.drives)}

\* C32: makedir on a drive root alias:\ with recreate=true, when a drive with that alias exists, succeeds and leaves the set of drives and the contents of the drive unchanged; doing it again gives the same state.
C32_RecreateDriveIdempotent ==
    \A path \in ExistingDriveRoots(G) :
        \E once \in {makedir(G, path, TRUE)} :
            /\ once = Raise("ok", G)
            /\ makedir(once.g, path, TRUE) = once

\* a drive made in memory exists next to the drive of the archive, after two operations
C32_Witness ==
    /\ ops >= 2
    /\ ExistingDriveRoots(G) = {P_e, <<"d", ":", "\\">>}
    /\ \E k \in 1..Len(drives) : ~drives[k].lazy /\ scandir(G, drives[k].root) = {}
    /\ \E k \in 1..Len(drives) : scandir(G, drives[k].root) # {}

\* the characters of the paths of the model, in both letter cases
PathChars == {"a", "b", "x", "y", "n", "d", "m", "z", "e", "A", "B", "X", "Y", "N", "D", "M", "Z", "E", ":", SEP}

\* the paths that differ from path in letter case only
RECURSIVE CaseVariants(_)
CaseVariants(path) ==
    IF path = <<>> THEN {<<>>}
    ELSE {<<c>> \o rest : c \in {c \in PathChars : LowerChar(c) = LowerChar(Head(path))},
                          rest \in CaseVariants(Tail(path))}

\* C33: path lookup is case-insensitive: two paths that differ only in letter case resolve to the same node, for lazy nodes loaded from an archive and for nodes created in memory alike.
C33_CaseInsensitiveLookup ==
    \A path \in FilePaths \cup DirPaths : \A v \in CaseVariants(path) :
        getnode(G, v, TRUE) = getnode(G, path, TRUE)

\* every string of a names blob is stored once
NamesOnce(names) ==
    \A i \in 1..Len(names) : \A j \in 1..Len(names) : names[i].str = names[j].str => i = j

\* the folder and file records that name the same string carry the same name_offset
SameNameSameOffset(img) ==
    \A r1 \in {img.folders[i] : i \in 1..Len(img.folders)} \cup {img.files[i] : i \in 1..Len(img.files)} :
    \A r2 \in {img.folders[i] : i \in 1..Len(img.folders)} \cup {img.files[i] : i \in 1..Len(img.files)} :
        get_name(img.names, r1.name_offset) = get_name(img.names, r2.name_offset)
            => r1.name_offset = r2.name_offset

\* ---------------------------------------------------------------------------
\* Packing a manifest (definitions.py ArcivV2TocDisassembler)
\* A manifest is the TOCList of an Arciv: per drive [Alias, Name, RootFolder], a folder is
\* [folder, Files, Folders], a file is [File, payload, Store] (payload: the bytes at its Path).
\* ---------------------------------------------------------------------------

\* most drives of a manifest under test
MaxTocItems == 2

\* ArcivV2TocDisassembler._get_or_make_name_table: the key of the name table of a drive
NameTableKey(drive) == <<drive.Name, drive.Alias>>

\* ArcivV2TocDisassembler.write_name_in_drive: _write_name_to_table on the table of the drive
\* with name.lower(); the string goes to the one name block when that table does not hold it
write_name_in_drive(t, drive, name) ==
    LET Keyed(key) ==
            IF \E i \in 1..Len(t.names) :
                   t.names[i].table = NameTableKey(drive) /\ t.names[i].str = key
            THEN t
            ELSE [t EXCEPT !.names = Append(@, [off |-> NamesSize(@), str |-> key,
                                                table |-> NameTableKey(drive)])]
    IN  Keyed(TableName(fix_case(name)))

\* the offset write_name_in_drive returns
name_offset_in_drive(t, drive, name) ==
    (CHOOSE e \in {t.names[i] : i \in 1..Len(t.names)} :
        e.table = NameTableKey(drive) /\ e.str = TableName(fix_case(name))).off

\* sorted(items, key=lambda x: Key(x).lower()) as the positions of the items: stable, ascending
RECURSIVE SortedPositions(_, _)
SortedPositions(keys, left) ==
    IF left = {} THEN <<>>
    ELSE LET Least(m) == <<m>> \o SortedPositions(keys, left \ {m})
         IN  Least(CHOOSE i \in left :
                      \A j \in left \ {i} :
                          \/ NameLess(fix_case(keys[i]), fix_case(keys[j]))
                          \/ (~NameLess(fix_case(keys[j]), fix_case(keys[i])) /\ i < j))

FileKeys(folder) == [i \in 1..Len(folder.Files) |-> folder.Files[i].File]
FolderKeys(folder) == [i \in 1..Len(folder.Folders) |-> folder.Folders[i].folder]

\* _V2TocDisassembler.write_file() with no window: a blank record is appended
BlankFile ==
    [name_offset |-> 0, flags |-> 0, data_offset |-> 0, compressed_size |-> 0,
     decompressed_size |-> 0]

\* write_arciv_sub_folders: one blank folder record per sub-folder, in manifest order
write_arciv_sub_folders(t, folder) == write_fs_sub_folders(t, Len(folder.Folders))

\* write_arciv_sub_files: one blank file record per file
write_arciv_sub_files(t, folder) ==
    [t EXCEPT !.files = @ \o [i \in 1..Len(folder.Files) |-> BlankFile]]

\* the record write_arciv_sub_files pairs with file i of the folder: the one reserved at the
\* place of the file in the order sorted by File.lower()
SubFileSlot(folder, file_start, i) ==
    LET Of(order) == file_start + (CHOOSE m \in 1..Len(order) : order[m] = i) - 1
    IN  Of(SortedPositions(FileKeys(folder), 1..Len(folder.Files)))

\* write_arciv_file_names: the file names of a folder in sorted order, then of its sub-folders
RECURSIVE write_arciv_file_names(_, _, _)
RECURSIVE FileNamesOfSubs(_, _, _)
RECURSIVE FileNamesIn(_, _, _, _)
FileNamesIn(t, folder, drive, order) ==
    IF order = <<>> THEN t
    ELSE Then({FileNamesIn(t1, folder, drive, Tail(order)) :
                   t1 \in {write_name_in_drive(t, drive, folder.Files[Head(order)].File)}})

FileNamesOfSubs(t, subs, drive) ==
    IF subs = <<>> THEN t
    ELSE Then({FileNamesOfSubs(t1, Tail(subs), drive) :
                   t1 \in {write_arciv_file_names(t, Head(subs), drive)}})

write_arciv_file_names(t, folder, drive) ==
    Then({FileNamesOfSubs(t1, folder.Folders, drive) :
            t1 \in {FileNamesIn(t, folder, drive,
                                SortedPositions(FileKeys(folder), 1..Len(folder.Files)))}})

\* write_arciv_folder_names: the full path of the folder, the full paths of its sub-folders in
\* sorted order, then the same for every sub-folder
RECURSIVE write_arciv_folder_names(_, _, _, _, _)
RECURSIVE FolderNamesOfSubs(_, _, _, _)
RECURSIVE SubFolderNamesIn(_, _, _, _, _)
SubFolderNamesIn(t, folder, drive, parent_full_path, order) ==
    IF order = <<>> THEN t
    ELSE Then({SubFolderNamesIn(t1, folder, drive, parent_full_path, Tail(order)) :
                   t1 \in {write_name_in_drive(t, drive,
                               join(<<parent_full_path, folder.Folders[Head(order)].folder>>))}})

FolderNamesOfSubs(t, subs, drive, parent_full_path) ==
    IF subs = <<>> THEN t
    ELSE Then({FolderNamesOfSubs(t1, Tail(subs), drive, parent_full_path) :
                   t1 \in {write_arciv_folder_names(t, Head(subs), drive, parent_full_path,
                                                    TRUE)}})

write_arciv_folder_names(t, folder, drive, path, has_path) ==
    LET Of(parent_full_path) ==
            Then({FolderNamesOfSubs(t2, folder.Folders, drive, parent_full_path) :
                    t2 \in {SubFolderNamesIn(
                                t1, folder, drive, parent_full_path,
                                SortedPositions(FolderKeys(folder), 1..Len(folder.Folders))) :
                            t1 \in {write_name_in_drive(t, drive, parent_full_path)}}})
    IN  Of(IF has_path THEN join(<<path, folder.folder>>) ELSE folder.folder)

\* write_arciv_names: the folder names of every drive, then the file names of every drive
RECURSIVE FolderNamesOfDrives(_, _)
FolderNamesOfDrives(t, items) ==
    IF items = <<>> THEN t
    ELSE Then({FolderNamesOfDrives(t1, Tail(items)) :
                   t1 \in {write_arciv_folder_names(t, Head(items).RootFolder, Head(items),
                                                    <<>>, FALSE)}})

RECURSIVE FileNamesOfDrives(_, _)
FileNamesOfDrives(t, items) ==
    IF items = <<>> THEN t
    ELSE Then({FileNamesOfDrives(t1, Tail(items)) :
                   t1 \in {write_arciv_file_names(t, Head(items).RootFolder, Head(items))}})

write_arciv_names(t, TOCList) ==
    Then({FileNamesOfDrives(t1, TOCList) : t1 \in {FolderNamesOfDrives(t, TOCList)}})

\* write_arciv_file: the name lowered, its offset in the table of the drive, the data header and
\* payload, then the record reserved for the file is filled in
write_arciv_file(t, file, drive, write_back) ==
    LET Recorded(t2, e, name_offset) ==
            [t2 EXCEPT !.files[write_back + 1] =
                [ name_offset       |-> name_offset,
                  flags             |-> SetStorageType(0, file.Store),
                  data_offset       |-> e.off + DATA_HEADER_SIZE,
                  compressed_size   |-> Len(e.payload),
                  decompressed_size |-> Len(file.payload) ]]
        Data(t1, name, t2) == Recorded(t2, t2.data[Len(t2.data)],
                                       name_offset_in_drive(t1, drive, name))
        Named(t1, name) == Data(t1, name, write_data(t1, name, 0, file.payload, file.Store))
        Of(name) == Named(write_name_in_drive(t, drive, name), name)
    IN  Of(fix_case(file.File))

\* write_arciv_folder: the name, the blank records of the sub-folders and of the files, the
\* sub-folders and the files written into them, then the record of the folder with the ranges
RECURSIVE write_arciv_folder(_, _, _, _, _, _)
RECURSIVE ArcivSubFolders(_, _, _, _, _, _)
RECURSIVE ArcivSubFiles(_, _, _, _, _)
ArcivSubFolders(t, folder, drive, full_path, folder_start, i) ==
    IF i > Len(folder.Folders) THEN t
    ELSE Then({ArcivSubFolders(t1, folder, drive, full_path, folder_start, i + 1) :
                   t1 \in {write_arciv_folder(t, folder.Folders[i], drive, full_path, TRUE,
                                              folder_start + i - 1)}})

ArcivSubFiles(t, folder, drive, file_start, i) ==
    IF i > Len(folder.Files) THEN t
    ELSE Then({ArcivSubFiles(t1, folder, drive, file_start, i + 1) :
                   t1 \in {write_arciv_file(t, folder.Files[i], drive,
                                            SubFileSlot(folder, file_start, i))}})

write_arciv_folder(t, folder, drive, path, has_path, write_back) ==
    LET Record(t5, name_offset, folder_start, folder_end, file_start, file_end) ==
            write_folder(t5, TRUE, write_back,
                [ name_offset  |-> name_offset,
                  first_folder |-> folder_start,
                  last_folder  |-> folder_end,
                  first_file   |-> file_start,
                  last_file    |-> file_end ])
        Filed(t3, full_path, name_offset, folder_start, folder_end, file_start) ==
            Then({Record(t5, name_offset, folder_start, folder_end, file_start,
                         Len(t3.files)) :
                    t5 \in {ArcivSubFiles(t4, folder, drive, file_start, 1) :
                            t4 \in {ArcivSubFolders(t3, folder, drive, full_path,
                                                    folder_start, 1)}}})
        Foldered(t2, full_path, name_offset, folder_start) ==
            Filed(write_arciv_sub_files(t2, folder), full_path, name_offset, folder_start,
                  t2.folder_count, Len(t2.files))
        Named(t1, full_path) ==
            Foldered(write_arciv_sub_folders(t1, folder), full_path,
                     name_offset_in_drive(t1, drive, full_path), t1.folder_count)
        Of(full_path) ==
            Then({Named(t1, full_path) : t1 \in {write_name_in_drive(t, drive, full_path)}})
    IN  Of(IF has_path THEN join(<<path, folder.folder>>) ELSE folder.folder)

\* write_arciv_drive: the blank record of the root folder, the root folder, the drive record
write_arciv_drive(t, drive) ==
    LET Record(t2, folder_start, file_start) ==
            [t2 EXCEPT !.drives = Append(@,
                [ alias |-> drive.Alias, name |-> drive.Name, first_folder |-> folder_start,
                  last_folder |-> t2.folder_count, first_file |-> file_start,
                  last_file |-> Len(t2.files), root_folder |-> folder_start ])]
    IN  Then({Record(t2, t.folder_count, Len(t.files)) :
                t2 \in {write_arciv_folder(write_folder(t, FALSE, 0, BlankFolder),
                                           drive.RootFolder, drive, <<>>, FALSE,
                                           Len(t.folders))}})

\* the files of the manifests under test
ArcivFiles ==
    { [File |-> <<"x">>, payload |-> <<1>>, Store |-> STORE],
      [File |-> <<"X">>, payload |-> <<1>>, Store |-> STORE],
      [File |-> <<"y">>, payload |-> <<2>>, Store |-> STREAM_COMPRESS] }

\* the file lists of a folder under test
ArcivFileLists == {<<>>} \cup {<<f>> : f \in ArcivFiles}
                      \cup {<<[File |-> <<"y">>, payload |-> <<2>>, Store |-> STREAM_COMPRESS],
                              [File |-> <<"x">>, payload |-> <<1>>, Store |-> STORE]>>}

\* the sub-folders of a root folder under test
ArcivSubFolderLists ==
    {<<>>} \cup {<<[folder |-> name, Files |-> fs, Folders |-> <<>>]>> :
                    name \in {<<"a">>, <<"A">>}, fs \in {<<>>, <<[File |-> <<"x">>, payload |-> <<1>>, Store |-> STORE]>>}}

\* the drives of the manifests under test
ArcivDrives(alias) ==
    {[Alias |-> alias, Name |-> <<"n">>,
      RootFolder |-> [folder |-> <<>>, Files |-> fs, Folders |-> subs]] :
        fs \in ArcivFileLists, subs \in ArcivSubFolderLists}

\* the manifests under test: one drive, or two
ArcivManifests ==
    {m \in {<<d>> : d \in ArcivDrives(<<"d">>)}
              \cup {<<d, e>> : d \in ArcivDrives(<<"d">>),
                               e \in {x \in ArcivDrives(<<"e">>) : Len(x.RootFolder.Files) <= 1}} :
        Len(m) <= MaxTocItems}

InitArciv ==
    /\ \E g \in {load_lazy(SourceImage)} :
           /\ drives = g.drives
           /\ folders = g.folders
           /\ files = g.files
    /\ lazy_file = TRUE
    /\ stream = SourceStream(0)
    /\ dst = EmptyStream
    /\ handles = {}
    /\ fate = "open"
    /\ ops = 0
    /\ opn = NoOpener
    /\ toch = NoHeader
    /\ nat = NoNative
    /\ last_save = [out |-> "-", wrote_src |-> FALSE, lazy |-> FALSE]
    /\ ser = NoSerializer
    /\ vfy = NoVerifier
    /\ pool = NoPool
    /\ lk = NoLock
    /\ fmt = NoFormat
    /\ \E TOCList \in ArcivManifests :
           arc = [pc |-> "new", TOCList |-> TOCList, t |-> NewDisassembler, next |-> 1]

\* _disassemble_arciv, first statement: write_arciv_names
ArcivNames ==
    /\ arc.pc = "new"
    /\ arc' = [arc EXCEPT !.pc = "drives", !.t = write_arciv_names(@, arc.TOCList)]
    /\ UNCHANGED <<fs_vars, vfy, pool, lk, fmt, nat, toch, opn>>

\* _disassemble_arciv, the loop: write_arciv_drive for the next drive of the TOCList
ArcivDrive ==
    /\ arc.pc = "drives"
    /\ arc.next <= Len(arc.TOCList)
    /\ arc' = [arc EXCEPT !.t = write_arciv_drive(@, arc.TOCList[arc.next]), !.next = @ + 1]
    /\ UNCHANGED <<fs_vars, vfy, pool, lk, fmt, nat, toch, opn>>

\* _disassemble_arciv returns
ArcivDone ==
    /\ arc.pc = "drives"
    /\ arc.next > Len(arc.TOCList)
    /\ arc' = [arc EXCEPT !.pc = "done"]
    /\ UNCHANGED <<fs_vars, vfy, pool, lk, fmt, nat, toch, opn>>

NextArciv == ArcivNames \/ ArcivDrive \/ ArcivDone

SpecArciv == InitArciv /\ [][NextArciv]_vars

\* C34: within one serialization equal name strings share a single offset: every distinct string is stored at most once in the names blob and all records that name the same string carry the same name_offset, across all drives of the archive.
C34_NamesStoredOnce ==
    arc.pc = "done" => NamesOnce(arc.t.names) /\ SameNameSameOffset(arc.t)

\* ---------------------------------------------------------------------------
\* An archive opened as an fsspec filesystem, changed and saved (fsspec_/main.py SgaV2,
\* fsspec_/serializer.py FsSpecWriter).  nat is [pc, root, calls, out]: root the drives
\* of _root.sub_folders as _Directory trees, calls the calls made, out the archive
\* save() wrote.
\* ---------------------------------------------------------------------------

\* number of mkdir / touch calls made before the save
MaxCalls == 3

\* SgaV2._parts: PureWindowsPath(path).parts, the steps between "\" and "/"
fs_parts(path) == SelectSeq(StrSplit(fix_seperator(path), SEP), LAMBDA p : Len(p) > 0)

\* _Directory(name, {}, {}, absolute_path)
NewDirectory(name, absolute_path) ==
    [ name |-> name, drive_name |-> <<>>, absolute_path |-> absolute_path,
      sub_folders |-> <<>>, files |-> <<>> ]

\* _Directory.child(name): the sub-folder of that name, else the file of that name
HasFolder(dir, name) == \E k \in 1..Len(dir.sub_folders) : dir.sub_folders[k].name = name

HasFile(dir, name) == \E k \in 1..Len(dir.files) : dir.files[k].name = name

FolderAt(dir, name) == CHOOSE k \in 1..Len(dir.sub_folders) : dir.sub_folders[k].name = name

FileAt(dir, name) == CHOOSE k \in 1..Len(dir.files) : dir.files[k].name = name

\* SgaV2._mkdir(parts, create_parents=True): _Directory.mkdir(step, exists_ok=True) step by
\* step from dir on; a step that names a file raises and what was made before it stays
RECURSIVE mkdir_parents(_, _)
mkdir_parents(dir, steps) ==
    IF Len(steps) = 0 THEN dir
    ELSE IF HasFolder(dir, Head(steps))
    THEN [dir EXCEPT !.sub_folders[FolderAt(dir, Head(steps))] =
                         mkdir_parents(@, Tail(steps))]
    ELSE IF HasFile(dir, Head(steps)) THEN dir
    ELSE [dir EXCEPT !.sub_folders =
              Append(@, mkdir_parents(NewDirectory(Head(steps),
                                                   Append(dir.absolute_path, Head(steps))),
                                      Tail(steps)))]

\* SgaV2._mkdir(parts, create_parents=False): _resolve_node to the parent, which has to be
\* there, then mkdir of the last step in it
RECURSIVE mkdir_last(_, _)
mkdir_last(dir, steps) ==
    IF Len(steps) <= 1 THEN mkdir_parents(dir, steps)
    ELSE IF HasFolder(dir, Head(steps))
    THEN [dir EXCEPT !.sub_folders[FolderAt(dir, Head(steps))] = mkdir_last(@, Tail(steps))]
    ELSE dir

\* SgaV2.mkdir(path, create_parents) on the root directory
fs_mkdir(root, path, create_parents) ==
    IF create_parents THEN mkdir_parents(root, fs_parts(path))
    ELSE mkdir_last(root, fs_parts(path))

\* SgaV2.touch(path) from dir on: a new empty _File named by the last step when the parent
\* holds nothing of that name, a new modified time when it holds that file
RECURSIVE TouchIn(_, _, _, _)
TouchIn(dir, steps, all_steps, now) ==
    IF Len(steps) = 0 THEN dir
    ELSE IF Len(steps) = 1
    THEN IF HasFolder(dir, Head(steps)) THEN dir
         ELSE IF HasFile(dir, Head(steps))
         THEN [dir EXCEPT !.files[FileAt(dir, Head(steps))].modified = now]
         ELSE [dir EXCEPT !.files =
                   Append(@, [ name |-> Head(steps), absolute_path |-> all_steps,
                               modified |-> now, crc32 |-> 0, storage_type |-> STORE,
                               mem |-> <<>> ])]
    ELSE IF HasFolder(dir, Head(steps))
    THEN [dir EXCEPT !.sub_folders[FolderAt(dir, Head(steps))] =
                         TouchIn(@, Tail(steps), all_steps, now)]
    ELSE dir

fs_touch(root, path, now) == TouchIn(root, fs_parts(path), fs_parts(path), now)

\* SgaV2._root around the drives
RootOf(ds) == [NewDirectory(<<>>, <<>>) EXCEPT !.sub_folders = ds]

\* paths handed to mkdir and touch: below the drive of the archive, in either letter case
\* and with either separator
MkdirPaths ==
    { <<"d", "/", "A">>, <<"d", "\\", "a", "\\", "B">>, <<"d", "/", "A", "/", "b">> }

TouchPaths ==
    { <<"d", "/", "a", "/", "X">>, <<"d", "/", "A", "/", "y">>,
      <<"d", "\\", "b", "\\", "x">>, <<"d", "\\", "a", "\\", "B", "\\", "Y">> }

InitNative ==
    /\ \E g \in {load_lazy(SourceImage)} :
           /\ drives = g.drives
           /\ folders = g.folders
           /\ files = g.files
    /\ lazy_file = TRUE
    /\ stream = SourceStream(0)
    /\ dst = EmptyStream
    /\ handles = {}
    /\ fate = "open"
    /\ ops = 0
    /\ opn = NoOpener
    /\ toch = NoHeader
    /\ last_save = [out |-> "-", wrote_src |-> FALSE, lazy |-> FALSE]
    /\ ser = NoSerializer
    /\ vfy = NoVerifier
    /\ pool = NoPool
    /\ lk = NoLock
    /\ fmt = NoFormat
    /\ arc = NoArciv
    /\ nat = [pc |-> "open", root |-> FsSpecParse(SourceImage), calls |-> 0, out |-> <<>>]

\* fs.mkdir(path, create_parents)
NativeMkdir(path, create_parents) ==
    /\ nat.pc = "open"
    /\ nat.calls < MaxCalls
    /\ nat' = [nat EXCEPT !.root = fs_mkdir(RootOf(@), path, create_parents).sub_folders,
                          !.calls = @ + 1]
    /\ UNCHANGED <<fs_vars, vfy, pool, lk, fmt, arc, toch, opn>>

\* fs.touch(path)
NativeTouch(path) ==
    /\ nat.pc = "open"
    /\ nat.calls < MaxCalls
    /\ nat' = [nat EXCEPT !.root = fs_touch(RootOf(@), path, unix2datetime(time_time)).sub_folders,
                          !.calls = @ + 1]
    /\ UNCHANGED <<fs_vars, vfy, pool, lk, fmt, arc, toch, opn>>

\* FsSpecWriter(fs).write(handle, name), what fs.save(handle) hands the filesystem to
NativeSave ==
    /\ nat.pc = "open"
    /\ nat' = [nat EXCEPT !.pc = "saved", !.out = SgaWriterWrite(nat.root)]
    /\ UNCHANGED <<fs_vars, vfy, pool, lk, fmt, arc, toch, opn>>

NextNative ==
    \/ \E path \in MkdirPaths : \E create_parents \in BOOLEAN : NativeMkdir(path, create_parents)
    \/ \E path \in TouchPaths : NativeTouch(path)
    \/ NativeSave

SpecNative == InitNative /\ [][NextNative]_vars

\* C35: every string a packer stores in the names blob is lowercase and uses the backslash as its only separator, whatever the letter case of the names held by the nodes being packed; here for the archive FsSpecWriter writes of an fsspec filesystem.
C35_NamesLowerBackslash ==
    nat.pc = "saved" =>
        \A i \in 1..Len(nat.out.names) :
            nat.out.names[i].str = fix_case(fix_seperator(nat.out.names[i].str))

\* the files of a directory in the order FsSpecWriter._add_fs_folder writes their records: those
\* of the sub-folders first, then its own
RECURSIVE FilesInWriteOrder(_)
RECURSIVE FilesOfAll(_)
FilesOfAll(dirs) ==
    IF Len(dirs) = 0 THEN <<>> ELSE FilesInWriteOrder(Head(dirs)) \o FilesOfAll(Tail(dirs))

FilesInWriteOrder(dir) == FilesOfAll(dir.sub_folders) \o dir.files

\* C36: for the DOW file record the storage type is carried in bits 4 to 7 of the flags field: the storage type a writer stores for a file is the storage type every reader reads back for it; here what FsSpecWriter stores and what _SgaTocFileV2.storage_type and the native parser read.
C36_StorageTypeRoundTrip ==
    nat.pc = "saved" =>
        \A written \in {FilesOfAll(nat.root)} :
            /\ Len(nat.out.files) = Len(written)
            /\ \A i \in 1..Len(written) :
                   /\ GetStorageType(nat.out.files[i].flags) = written[i].storage_type
                   /\ parse_dow_storge_type(nat.out.files[i].flags) = written[i].storage_type

\* ------------------------------------------------------------ folder ranges
\* the tree a reader rebuilds from folder record i (1-based) by slicing the tables as
\* _files_lookup / _folder_lookup do: the names of the file records of [first_file, last_file)
\* and the trees, by basename, of the folder records of [first_folder, last_folder)
RECURSIVE RecordTree(_, _)
RecordTree(img, i) ==
    LET info == img.folders[i]
        FilesOf(ids) ==
            {get_name(img.names, img.files[ids[k]].name_offset) : k \in 1..Len(ids)}
        FoldersOf(ids) ==
            {[name |-> basename(get_name(img.names, img.folders[ids[k]].name_offset)),
              tree |-> RecordTree(img, ids[k])] : k \in 1..Len(ids)}
    IN  [ files   |-> FilesOf(Slice(info.first_file, info.last_file)),
          count   |-> <<Len(Slice(info.first_file, info.last_file)),
                        Len(Slice(info.first_folder, info.last_folder))>>,
          folders |-> FoldersOf(Slice(info.first_folder, info.last_folder)) ]

\* the tree below folder d of a graph: its direct child files and its direct sub-folders
RECURSIVE GraphTree(_, _)
GraphTree(g, d) ==
    [ files   |-> {g.files[g.folders[d].files[k]].name : k \in 1..Len(g.folders[d].files)},
      count   |-> <<Len(g.folders[d].files), Len(g.folders[d].folders)>>,
      folders |-> {[name |-> g.folders[g.folders[d].folders[k]].name,
                    tree |-> GraphTree(g, g.folders[d].folders[k])] :
                      k \in 1..Len(g.folders[d].folders)} ]

\* the tree below a folder of a manifest, names as the packer lowers them
RECURSIVE ManifestTree(_)
ManifestTree(folder) ==
    [ files   |-> {fix_case(folder.Files[k].File) : k \in 1..Len(folder.Files)},
      count   |-> <<Len(folder.Files), Len(folder.Folders)>>,
      folders |-> {[name |-> basename(fix_case(folder.Folders[k].folder)),
                    tree |-> ManifestTree(folder.Folders[k])] : k \in 1..Len(folder.Folders)} ]

\* every file record lies in the range of exactly one folder record, and every folder record
\* that is not the root of a drive in the sub-folder range of exactly one folder record
RangesPartition(img) ==
    LET Roots == {img.drives[k].root_folder + 1 : k \in 1..Len(img.drives)}
    IN  /\ \A f \in 1..Len(img.files) :
               Cardinality({i \in 1..Len(img.folders) :
                               img.folders[i].first_file < f /\ f <= img.folders[i].last_file}) = 1
        /\ \A s \in 1..Len(img.folders) :
               Cardinality({i \in 1..Len(img.folders) :
                               img.folders[i].first_folder < s /\ s <= img.folders[i].last_folder})
                   = IF s \in Roots THEN 0 ELSE 1

\* ArcivV2TocDisassembler._disassemble_arciv as a whole: the names, then drive by drive
RECURSIVE PackDrives(_, _)
PackDrives(t, items) ==
    IF Len(items) = 0 THEN t
    ELSE Then({PackDrives(t1, Tail(items)) : t1 \in {write_arciv_drive(t, Head(items))}})

disassemble_arciv(TOCList) == PackDrives(write_arciv_names(NewDisassembler, TOCList), TOCList)

\* what _disassemble_fs packs of the filesystem reads back as the tree of the filesystem
FsRangesAreChildren ==
    \A t \in {disassemble(G)} :
        /\ Len(t.drives) = Len(drives)
        /\ RangesPartition(t)
        /\ \A k \in 1..Len(drives) :
               RecordTree(t, t.drives[k].root_folder + 1) = GraphTree(G, drives[k].root)

\* what _disassemble_arciv packs of a manifest reads back as the tree of the manifest
ArcivRangesAreChildren(TOCList) ==
    \A t \in {disassemble_arciv(TOCList)} :
        /\ Len(t.drives) = Len(TOCList)
        /\ RangesPartition(t)
        /\ \A k \in 1..Len(TOCList) :
               RecordTree(t, t.drives[k].root_folder + 1) = ManifestTree(TOCList[k].RootFolder)

\* every manifest under test reads back as packed
ArcivAllRangesAreChildren == \A TOCList \in ArcivManifests : ArcivRangesAreChildren(TOCList)

\* C37: in every serialized archive, for every folder, the file records in [first_file, last_file) are exactly the direct child files of the folder and the folder records in [first_folder, last_folder) exactly its direct sub-folders, so that a reader slicing the tables by these ranges rebuilds the tree that was packed; for what EssenceFSV2 packs of its filesystem in every state, and for what the manifest packer packs of every manifest.
C37_RangesAreChildren == FsRangesAreChildren /\ ArcivAllRangesAreChildren

\* a filesystem was changed and what is packed of it holds a folder with a sub-folder and two
\* files of its own, a folder with neither, and a folder whose files follow those of another
C37_Witness ==
    /\ ops >= 2
    /\ \E t \in {disassemble(G)} :
           /\ \E i \in 1..Len(t.folders) :
                  /\ t.folders[i].last_folder > t.folders[i].first_folder
                  /\ t.folders[i].last_file >= t.folders[i].first_file + 2
           /\ \E i \in 1..Len(t.folders) :
                  /\ t.folders[i].last_folder = t.folders[i].first_folder
                  /\ t.folders[i].last_file = t.folders[i].first_file
           /\ \E i \in 1..Len(t.folders) :
                  t.folders[i].first_file > 0 /\ t.folders[i].last_file > t.folders[i].first_file

\* the folders of DirPaths that are there, hold no child and lie in a folder that is Mutable
EmptyDirsOfMutable(g) ==
    {path \in DirPaths :
        /\ parse(path).path # ROOT
        /\ \E n \in {getnode(g, path, TRUE)} :
               n.err = "ok" /\ n.node.kind = "folder" /\ scandir(g, n.node.id) = {}
        /\ \E e \in {try_enter_parent(g, path)} : e.err = "ok" /\ ~g.folders[e.parent].lazy}

\* C38: removedir on an existing empty folder of a Mutable parent succeeds, and afterwards the path of the folder no longer resolves and its name is no longer listed among the children of its parent.
C38_EmptyDirRemoved ==
    \A path \in EmptyDirsOfMutable(G) :
        \A r \in {removedir(G, path)} : \A e \in {try_enter_parent(G, path)} :
            /\ r.err = "ok"
            /\ getnode(r.g, path, TRUE).err = "ResourceNotFound"
            /\ e.child \notin scandir(r.g, e.parent)

\* ------------------------------------------------ the native parser's ToC header
\* TOC_PTR = struct.Struct("<IH"): a 4-byte offset and a 2-byte count
TOC_PTR_SIZE == 6

\* NativeParserV2._TOC_OFFSET
TOC_OFFSET == 180

\* the sub-blocks in the order of their pointers in the header: drives, folders, files, names
DRIVES == 1
FOLDERS == 2
FILES == 3
NAMES == 4

\* the orders the four sub-blocks may be laid out in
BlockOrders ==
    {o \in [1..4 -> 1..4] : \A i \in 1..4 : \A j \in 1..4 : i # j => o[i] # o[j]}

\* name tables of the headers under test: "\0a\0" and "a\0b\0"
HeaderNameTables == { <<0, 97, 0>>, <<97, 0, 98, 0>> }

\* how many file records the headers under test hold
MaxHeaderFiles == 1

\* a layout: the order of the sub-blocks, the number of file records, the name table
HeaderLayouts == [ order : BlockOrders, files : 0..MaxHeaderFiles, name_table : HeaderNameTables ]

\* the bytes of sub-block b of a layout: one drive, one folder, the file records, the names
BlockBytes(layout, b) ==
    CASE b = DRIVES  -> [i \in 1..DRIVE_SIZE |-> 1]
      [] b = FOLDERS -> [i \in 1..FOLDER_SIZE |-> 2]
      [] b = FILES   -> [i \in 1..(FILE_SIZE_DOW * layout.files) |-> 3]
      [] OTHER       -> layout.name_table

\* how many entries sub-block b of a layout holds
BlockCount(layout, b) ==
    CASE b = FILES -> layout.files
      [] b = NAMES -> Len(SelectSeq(layout.name_table, LAMBDA c : c = 0))
      [] OTHER     -> 1

\* the blocks of a layout from position k of its order on, one after the other
RECURSIVE BodyFrom(_, _)
BodyFrom(layout, k) ==
    IF k > 4 THEN <<>> ELSE BlockBytes(layout, layout.order[k]) \o BodyFrom(layout, k + 1)

\* where sub-block b of a layout starts, counted from the ToC header
BlockOffset(layout, b) ==
    LET k == CHOOSE i \in 1..4 : layout.order[i] = b
    IN  TOC_HEADER_SIZE + Len(BodyFrom(layout, 1)) - Len(BodyFrom(layout, k))

\* the table of contents of a layout: the four pointers, then the sub-blocks
TocOf(layout) ==
    LET Ptr(b) == to_le(BlockOffset(layout, b), 4) \o to_le(BlockCount(layout, b), 2)
    IN  Ptr(DRIVES) \o Ptr(FOLDERS) \o Ptr(FILES) \o Ptr(NAMES) \o BodyFrom(layout, 1)

\* _read(offset, size) of a file whose table of contents starts at _TOC_OFFSET
NativeRead(toc, offset, size) ==
    BytesSlice(toc, offset - TOC_OFFSET + 1, offset - TOC_OFFSET + size)

\* NativeParserV2._parse_toc_pair: the offset and count of pointer block_index, no size yet
parse_toc_pair(toc, block_index, base_offset) ==
    LET Of(buffer) == [ offset |-> from_le(SubSeq(buffer, 1, 4)) + base_offset,
                        count |-> from_le(SubSeq(buffer, 5, 6)), size |-> -1 ]
    IN  Of(NativeRead(toc, TOC_OFFSET + block_index * TOC_PTR_SIZE, TOC_PTR_SIZE))

\* sorted(ptrs, key=offset, reverse=True) as indices into ptrs: offsets descending, pointers of
\* equal offset in the order they have in ptrs (the sort is stable, reversed or not)
SortedReverse(ptrs) ==
    CHOOSE s \in BlockOrders :
        \A i \in 1..4 : \A j \in 1..4 :
            i < j => \/ ptrs[s[i]].offset > ptrs[s[j]].offset
                     \/ ptrs[s[i]].offset = ptrs[s[j]].offset /\ s[i] < s[j]

\* the loop of _parse_toc_header over the sorted pointers: a pointer's size is the distance to
\* current_terminal, which then becomes its offset; its offset becomes absolute
RECURSIVE SizePtrs(_, _, _)
SizePtrs(ptrs, todo, current_terminal) ==
    IF todo = <<>> THEN ptrs
    ELSE Then({ SizePtrs([ptrs EXCEPT ![Head(todo)] =
                             [ offset |-> ptr.offset + TOC_OFFSET, count |-> ptr.count,
                               size |-> current_terminal - ptr.offset ]],
                         Tail(todo), ptr.offset) : ptr \in {ptrs[Head(todo)]} })

\* NativeParserV2._parse_toc_header: <<drives, folders, files, names>>
parse_toc_header(toc, TOC_SIZE) ==
    LET ptrs == [i \in 1..4 |-> parse_toc_pair(toc, i - 1, 0)]
    IN  SizePtrs(ptrs, SortedReverse(ptrs), TOC_SIZE)

\* bytes.decode("utf-8") on the alphabet of the name tables
decode_utf8(b) ==
    [i \in 1..Len(b) |-> CASE b[i] = 97 -> "a" [] b[i] = 98 -> "b" [] OTHER -> "?"]

\* the loop of _parse_names: each piece is stored at running_index, which then moves past it
RECURSIVE NamesFrom(_, _)
NamesFrom(pieces, running_index) ==
    IF pieces = <<>> THEN {}
    ELSE {<<running_index, decode_utf8(Head(pieces))>>}
             \cup NamesFrom(Tail(pieces), running_index + Len(Head(pieces)) + 1)

\* NativeParserV2._parse_names: the names of the bytes the pointer spans, by their offset
parse_names(toc, ptr) == NamesFrom(StrSplit(NativeRead(toc, ptr.offset, ptr.size), 0), 0)

InitHeader ==
    /\ \E g \in {load_lazy(SourceImage)} :
           /\ drives = g.drives
           /\ folders = g.folders
           /\ files = g.files
    /\ lazy_file = TRUE
    /\ stream = SourceStream(0)
    /\ dst = EmptyStream
    /\ handles = {}
    /\ fate = "open"
    /\ ops = 0
    /\ opn = NoOpener
    /\ last_save = [out |-> "-", wrote_src |-> FALSE, lazy |-> FALSE]
    /\ ser = NoSerializer
    /\ vfy = NoVerifier
    /\ pool = NoPool
    /\ lk = NoLock
    /\ fmt = NoFormat
    /\ arc = NoArciv
    /\ nat = NoNative
    /\ \E layout \in HeaderLayouts :
           toch = [ pc |-> "meta", layout |-> layout, toc |-> TocOf(layout),
                   toc_size |-> Len(TocOf(layout)), ptrs |-> <<>>, names |-> {} ]

\* toc_ptrs = self._parse_toc_header()
HeaderParseTocHeader ==
    /\ toch.pc = "meta"
    /\ toch' = [toch EXCEPT !.pc = "header", !.ptrs = parse_toc_header(toch.toc, toch.toc_size)]
    /\ UNCHANGED <<fs_vars, vfy, pool, lk, fmt, arc, nat, opn>>

\* names = self._parse_names(toc_ptrs.names)
HeaderParseNames ==
    /\ toch.pc = "header"
    /\ toch' = [toch EXCEPT !.pc = "names", !.names = parse_names(toch.toc, toch.ptrs[NAMES])]
    /\ UNCHANGED <<fs_vars, vfy, pool, lk, fmt, arc, nat, opn>>

NextHeader == HeaderParseTocHeader \/ HeaderParseNames

SpecHeader == InitHeader /\ [][NextHeader]_vars

\* C39: whatever the order of the four sub-blocks, the native parser gives every sub-block its
\* own byte range (its absolute offset, and as its size the length of the block, 0 for an empty
\* block), and the names it parses are those of the bytes of the names sub-block.
C39_OwnByteRange ==
    /\ toch.pc \in {"header", "names"} =>
           \A b \in 1..4 :
               /\ toch.ptrs[b].offset = TOC_OFFSET + BlockOffset(toch.layout, b)
               /\ toch.ptrs[b].size = Len(BlockBytes(toch.layout, b))
    /\ toch.pc = "names" => toch.names = NamesFrom(StrSplit(toch.layout.name_table, 0), 0)

\* ------------------------------------------------ the opener
\* EssenceFSV2Opener._PROTOCOLS
PROTOCOLS == {"sga-v2", "sga-dow", "sga-ic"}

\* EssenceFSV2Opener._PROTO2GAME.get(protocol, None)
PROTO2GAME(protocol) ==
    CASE protocol = "sga-dow" -> "DawnOfWar"
      [] protocol = "sga-ic"  -> "ImpossibleCreatures"
      [] OTHER                -> "None"

\* what parse_result.resource may name: no file, the archive the model starts from, an empty
\* file, a file that is no archive
OpenerResources ==
    { NoResource,
      [exists |-> TRUE, img |-> <<SourceImage>>, size |-> ImageSize(SourceImage)],
      [exists |-> TRUE, img |-> <<>>, size |-> 0],
      [exists |-> TRUE, img |-> <<>>, size |-> 1] }

\* EssenceFSV2(): no drives, no parsed file
EmptyGraph == [drives |-> <<>>, folders |-> <<>>, files |-> <<>>]

\* with open(resource, "xb") as _: EssenceFSV2(game=game_format).save(_)
bare_file ==
    LET Of(r) == [exists |-> TRUE, img |-> r.out.img, size |-> r.out.size]
    IN  Of(SerializerWrite(EmptyGraph, [EmptyStream EXCEPT !.readable = FALSE], FALSE))

\* open(resource, fmode): "w+b" truncates the file to no bytes, "rb" leaves it
open_file(file, fmode) ==
    IF fmode = "w+b" THEN [exists |-> TRUE, img |-> <<>>, size |-> 0] ELSE file

\* MAGIC_WORD.validate and VersionSerializer.read with the version check: the bytes from
\* offset 0 are those of a version 2 archive
valid_header(file) == file.img # <<>>

\* EssenceFSV2Opener.open_fs: [err, disk, g, lazy_file, stream], disk the file afterwards
open_fs(resource, protocol, writeable, create) ==
    LET fmode == IF writeable THEN "w+b" ELSE "rb"
        Constructed(file, exists, a) ==
            [err |-> "ok", disk |-> file, g |-> a.g, lazy_file |-> a.lazy_file,
             stream |-> a.stream]
        Handle(file) ==
            [img |-> file.img, size |-> file.size, pos |-> 0, readable |-> TRUE,
             writable |-> writeable]
        Opened(file, exists) ==
            IF ~valid_header(file)
            THEN [err |-> "MismatchError", disk |-> file, g |-> EmptyGraph,
                  lazy_file |-> FALSE, stream |-> EmptyStream]
            ELSE Constructed(file, exists,
                     IF exists
                     THEN [g |-> load_lazy(file.img[1]), lazy_file |-> TRUE,
                           stream |-> Handle(file)]
                     ELSE [g |-> EmptyGraph, lazy_file |-> FALSE, stream |-> Handle(file)])
    IN  IF ~resource.exists /\ ~create
        THEN [err |-> "FileNotFoundError", disk |-> resource, g |-> EmptyGraph,
              lazy_file |-> FALSE, stream |-> EmptyStream]
        ELSE Opened(open_file(IF resource.exists THEN resource ELSE bare_file, fmode),
                    resource.exists)

InitOpener ==
    /\ drives = <<>>
    /\ folders = <<>>
    /\ files = <<>>
    /\ lazy_file = FALSE
    /\ stream = EmptyStream
    /\ dst = EmptyStream
    /\ handles = {}
    /\ fate = "unopened"
    /\ ops = 0
    /\ last_save = [out |-> "-", wrote_src |-> FALSE, lazy |-> FALSE]
    /\ ser = NoSerializer
    /\ vfy = NoVerifier
    /\ pool = NoPool
    /\ lk = NoLock
    /\ fmt = NoFormat
    /\ arc = NoArciv
    /\ nat = NoNative
    /\ toch = NoHeader
    /\ \E resource \in OpenerResources :
           opn = [NoOpener EXCEPT !.pc = "closed", !.before = resource, !.disk = resource]

\* fs.open_fs(fs_url, writeable=writeable, create=create) on the resource
OpenFs(protocol, writeable, create) ==
    /\ opn.pc = "closed"
    /\ \E r \in {open_fs(opn.disk, protocol, writeable, create)} :
           /\ SetGraph(r.g)
           /\ lazy_file' = r.lazy_file
           /\ stream' = r.stream
           /\ fate' = IF r.err = "ok" THEN "open" ELSE fate
           /\ opn' = [opn EXCEPT !.pc = IF r.err = "ok" THEN "opened" ELSE "raised",
                                 !.disk = r.disk, !.writeable = writeable, !.create = create,
                                 !.game = PROTO2GAME(protocol), !.err = r.err]
    /\ UNCHANGED <<dst, handles, ops, last_save, ser, vfy, pool, lk, fmt, arc, nat, toch>>

NextOpener ==
    \/ \E protocol \in PROTOCOLS, writeable \in BOOLEAN, create \in BOOLEAN :
           OpenFs(protocol, writeable, create)
    \/ \E path \in FilePaths : ReadFile(path)
    \/ \E path \in DirPaths, recreate \in BOOLEAN : MakeDir(path, recreate)
    \/ Close

SpecOpener == InitOpener /\ [][NextOpener]_vars

\* C40: opening an existing archive file with writeable=true leaves the file as it was, raises
\* nothing, and the filesystem holds the drives, folders and files the archive stores.
C40_OpenKeepsArchive ==
    (opn.pc \in {"opened", "raised"} /\ opn.writeable /\ opn.before.exists
         /\ opn.before.img # <<>> /\ ops = 0) =>
        /\ opn.disk = opn.before
        /\ opn.err = "ok"
        /\ G = load_lazy(opn.before.img[1])

====
